---- MODULE Spec2Model ----
(***************************************************************************)
(* CyclePlan: the waypoint / route editing core, the routing client and    *)
(* the saved-route store, as state machines.                               *)
(*                                                                         *)
(* Geography is restricted to one meridian: every finite point has         *)
(* lng = 0 and an integer lat, so that the great-circle distance between   *)
(* two points is proportional to the difference of their latitudes and     *)
(* all geometry stays in the integers.                                     *)
(***************************************************************************)
EXTENDS Integers, Sequences, FiniteSets, TLC

VARIABLES
    \* ---- AppState (src/src/types.ts:24-35) ----
    routingPoints,          \* state.routingPoints: sequence of LatLng (may hold holes)
    routingMarkers,         \* state.routingMarkers: sequence of markers on the map
    routeLayer,             \* the polyline drawn in state.routeLayer (<<>> = cleared)
    currentRouteDistance,   \* state.currentRouteDistance
    currentLoadedRouteId,   \* state.currentLoadedRouteId (0 = null)
    isRoundTrip,            \* state.isRoundTrip
    isRouteModified,        \* state.isRouteModified
    \* ---- the event loop: requests in flight, timers, listeners ----
    snapReqs,               \* calls suspended in `await snapToNearestRoad(...)`
    routeReqs,              \* calls suspended in `await fetch(url)` of fetchOsrmRoute
    clickHandlers,          \* number of listeners registered for map 'click'
    timers,                 \* pending setTimeout callbacks of dragend
    dragging,               \* pointIndex + 1 of the marker being dragged, 0 = none
    gestures,               \* user gestures handled so far
    \* ---- durable storage ----
    savedRoutes,            \* localStorage[SAVED_ROUTES_KEY], parsed
    nextId,                 \* source of generateRouteId / Date.now
    \* ---- history ----
    last,                   \* the operation that made the last step
    \* ---- pure-function harness ----
    args,                   \* inputs of the function under check
    result                  \* what it returned

draftVars == <<routingPoints, routingMarkers, routeLayer, currentRouteDistance,
               currentLoadedRouteId, isRoundTrip, isRouteModified>>
loopVars  == <<snapReqs, routeReqs, clickHandlers, timers, dragging>>
storeVars == <<savedRoutes, nextId>>
pureVars  == <<args, result>>
vars      == <<draftVars, loopVars, gestures, storeVars, last, pureVars>>

-----------------------------------------------------------------------------
(* Bounds of the model *)

\* longest waypoint list handed to fetchOsrmRoute in SpecRoute
MaxWaypoints == 3
\* most points the draft may hold
MaxPoints == 3
\* most suspended calls (snap requests, route requests) at one time
MaxInFlight == 2
\* most user gestures in one session
MaxGestures == 3
\* the quota of durable storage, in units of one record header or one point
StorageQuota == 5
\* most ids generated in one session
MaxIds == 5

-----------------------------------------------------------------------------
(* JavaScript values *)

Fin(n)    == [t |-> "fin", v |-> n]
NaN       == [t |-> "nan", v |-> 0]
Infinity  == [t |-> "inf", v |-> 1]
Undefined == [t |-> "undef", v |-> 0]

LatLng(lat, lng) == [lat |-> lat, lng |-> lng]
\* a finite point on the meridian
P(x) == LatLng(Fin(x), Fin(0))
\* an empty slot of an array (reads as undefined)
Hole == LatLng(Undefined, Undefined)

IsNumber(x) == x.t \in {"fin", "nan", "inf"}
IsNaN(x)    == x.t = "nan"

Min(a, b) == IF a < b THEN a ELSE b
Max(a, b) == IF a > b THEN a ELSE b
Abs(a)    == IF a < 0 THEN -a ELSE a

NullLast == [op |-> "none", a |-> 0, b |-> 0]
Did(op, a, b) == [op |-> op, a |-> a, b |-> b]

-----------------------------------------------------------------------------
(* Routing client: fetchOsrmRoute *)

\* The filter predicate of fetchOsrmRoute.
ValidWaypoint(point) ==
    /\ point # Hole
    /\ IsNumber(point.lat) /\ IsNumber(point.lng)
    /\ ~IsNaN(point.lat) /\ ~IsNaN(point.lng)

\* `${point.lng},${point.lat}`: one coordinate of the request URL
FormatCoord(point) == <<point.lng, point.lat>>

\* validWaypoints.map(...).join(';')
JoinCoords(valid) == [i \in 1..Len(valid) |-> FormatCoord(valid[i])]

\* (mutant) the return leg is appended from 2 points on
RoundTripBranchFrom2(flag, valid) == flag /\ Len(valid) >= 2

\* The round-trip branch: the first coordinate is appended as the last one.
RoundTripBranch(flag, valid) == flag /\ Len(valid) >= 3

CoordsWithReturn(valid) == Append(JoinCoords(valid), FormatCoord(valid[1]))

NoRequest(kind) == [kind |-> kind, service |-> "none", coords |-> <<>>]

\* fetchOsrmRoute up to its `await fetch(url)`: what it returns or throws
\* without a request, or the request it issues.
FetchPlan(waypoints, flag) ==
    IF Len(waypoints) < 2 THEN NoRequest("null")
    ELSE LET valid == SelectSeq(waypoints, ValidWaypoint) IN
         IF Len(valid) < 2 THEN NoRequest("throw")
         ELSE IF RoundTripBranch(flag, valid)
              THEN [kind |-> "request", service |-> "route",
                    coords |-> CoordsWithReturn(valid)]
              ELSE [kind |-> "request", service |-> "route",
                    coords |-> JoinCoords(valid)]

-----------------------------------------------------------------------------
(* Pure-function specification: fetchOsrmRoute on every bounded input *)

\* waypoints handed to fetchOsrmRoute: finite points, NaN / Infinity
\* coordinates, a point with a missing latitude, an empty slot
WaypointValues ==
    {P(0), P(1), P(2), LatLng(NaN, Fin(0)), LatLng(Fin(1), Infinity),
     LatLng(Undefined, Fin(0)), Hole}

SeqsUpTo(S, n) == UNION {[1..k -> S] : k \in 0..n}

NoArgs   == [fn |-> "none", waypoints |-> <<>>, flag |-> FALSE]
NoResult == [done |-> FALSE, plan |-> NoRequest("null")]

IdleDraft ==
    /\ routingPoints = <<>>
    /\ routingMarkers = <<>>
    /\ routeLayer = <<>>
    /\ currentRouteDistance = 0
    /\ currentLoadedRouteId = 0
    /\ isRoundTrip = FALSE
    /\ isRouteModified = FALSE

IdleLoop ==
    /\ snapReqs = <<>>
    /\ routeReqs = <<>>
    /\ clickHandlers = 1
    /\ timers = 0
    /\ dragging = 0
    /\ gestures = 0

InitRoute ==
    /\ IdleDraft /\ IdleLoop
    /\ savedRoutes = <<>> /\ nextId = 1
    /\ last = NullLast
    /\ \E w \in SeqsUpTo(WaypointValues, MaxWaypoints), f \in BOOLEAN :
          args = [fn |-> "fetchOsrmRoute", waypoints |-> w, flag |-> f]
    /\ result = NoResult

CallFetchOsrmRoute ==
    /\ ~result.done
    /\ result' = [done |-> TRUE, plan |-> FetchPlan(args.waypoints, args.flag)]
    /\ UNCHANGED <<draftVars, loopVars, gestures, storeVars, last, args>>

NextRoute == CallFetchOsrmRoute

SpecRoute == InitRoute /\ [][NextRoute]_vars

-----------------------------------------------------------------------------
(* C1: whenever the list holds at least 2 valid waypoints, fetchOsrmRoute  *)
(* issues one request to the ordinary route service whose coordinates are  *)
(* the valid waypoints in input order, followed by a copy of the first     *)
(* valid waypoint exactly when isRoundTrip is set and at least 3 waypoints *)
(* are valid; nothing is appended or reordered otherwise.                  *)
C1_RoundTripCoords ==
    result.done =>
        LET valid  == SelectSeq(args.waypoints, ValidWaypoint)
            n      == Len(valid)
            inOrder == [i \in 1..n |-> <<valid[i].lng, valid[i].lat>>]
        IN  n >= 2 =>
              /\ result.plan.kind = "request"
              /\ result.plan.service = "route"
              /\ result.plan.coords =
                    IF args.flag /\ n >= 3
                    THEN inOrder \o <<inOrder[1]>>
                    ELSE inOrder

\* Scenario C: a round trip through three points has been requested.
C1_Witness ==
    /\ result.done
    /\ args.flag
    /\ args.waypoints = <<P(0), P(1), P(2)>>
    /\ result.plan.coords =
          <<FormatCoord(P(0)), FormatCoord(P(1)), FormatCoord(P(2)), FormatCoord(P(0))>>

-----------------------------------------------------------------------------
(* The routing backend, as the client sees it *)

\* Road snapping: nearest/v1 answers with the nearest point of the road
\* network, here the next even latitude; L.latLng(location[1], location[0]).
SnapLocation(latlng) == P(latlng.lat.v + 1)

\* (mutant) a rejected fetch escapes snapToNearestRoad
SnapThrowsOnNetworkError(answer) == answer = "network"

\* Whether snapToNearestRoad throws: every await and every access to the
\* response is inside its try / catch.
SnapThrows(answer) == FALSE

\* snapToNearestRoad: the snapped point, or null (Hole) on a failed request,
\* a non-success status or an empty waypoint list.
SnapToNearestRoad(latlng, answer) ==
    IF answer = "ok" THEN SnapLocation(latlng) ELSE Hole

\* `snapped || latlng`
OrElse(snapped, latlng) == IF snapped # Hole THEN snapped ELSE latlng

\* a.distanceTo(b) on the meridian, in units of one degree of latitude
DistanceTo(a, b) == Abs(a.lat.v - b.lat.v)

RECURSIVE PathLength(_)
PathLength(latlngs) ==
    IF Len(latlngs) < 2 THEN 0
    ELSE DistanceTo(latlngs[1], latlngs[2]) + PathLength(Tail(latlngs))

\* L.geoJSON(geometry): GeoJSON positions [lng, lat] become LatLngs
GeoToLatLngs(coords) == [i \in 1..Len(coords) |-> LatLng(coords[i][2], coords[i][1])]

\* How a route request can end: "ok" is a route through the requested
\* coordinates, "short" a route whose geometry is a single position,
\* "fail" an error status, an empty route list or a network error.
RouteAnswers == {"ok", "short", "fail"}

RouteAnswer(coords, answer) ==
    CASE answer = "ok"    -> [geometry |-> coords,
                              distance |-> PathLength(GeoToLatLngs(coords))]
      [] answer = "short" -> [geometry |-> <<coords[1]>>, distance |-> 0]
      [] OTHER            -> [geometry |-> <<>>, distance |-> 0]

-----------------------------------------------------------------------------
(* Array operations *)

\* arr.splice(start, 0, x), start >= 0 clamped to the length
Splice(arr, start, x) ==
    LET k == Min(start, Len(arr))
    IN  SubSeq(arr, 1, k) \o <<x>> \o SubSeq(arr, k + 1, Len(arr))

\* arr.splice(index, 1)
SpliceOut(arr, index) == SubSeq(arr, 1, index) \o SubSeq(arr, index + 2, Len(arr))

\* arr[index] = x: writing past the end leaves empty slots in between
AssignAt(arr, index, x) ==
    IF index < Len(arr) THEN [arr EXCEPT ![index + 1] = x]
    ELSE arr \o [i \in 1..(index - Len(arr)) |-> Hole] \o <<x>>

-----------------------------------------------------------------------------
(* Markers *)

\* createNumberedMarker: the label and the stored pointIndex
CreateNumberedMarker(number) == [pointIndex |-> number - 1, number |-> number]

\* redrawMarkers: one marker per point; forEach skips empty slots
RedrawMarkers(points) ==
    LET all == [i \in 1..Len(points) |-> CreateNumberedMarker(i)]
    IN  SelectSeq(all, LAMBDA m : points[m.number] # Hole)

-----------------------------------------------------------------------------
(* updateRoute *)

\* The catch block of updateRoute: what a failed recompute leaves behind.
RouteFailed(layer) == [layer |-> layer, dist |-> 0]

\* (mutant) a failed recompute rejects the promise of updateRoute
UpdateRouteRejectsOnFailure(answer) == answer = "fail"

\* Whether updateRoute's promise rejects when the recompute fails: the
\* try / catch around fetchOsrmRoute and drawRoute swallows every failure.
UpdateRouteRejects(answer) == FALSE

\* A suspended fetch of fetchOsrmRoute. waiter > 0: a polyline-projection
\* insertion is suspended in `await updateRoute()`, having spliced waiter
\* points so far for the call `waiter` belongs to.
RouteReq(coords, waiter, anchor, drop) ==
    [coords |-> coords, waiter |-> waiter, anchor |-> anchor, drop |-> drop]

\* updateRoute up to its first suspension.
UpdateRoute(points, flag, layer, dist, reqs, waiter, anchor, drop) ==
    IF Len(points) < 2
    THEN [layer |-> <<>>, dist |-> 0, reqs |-> reqs, issued |-> FALSE]
    ELSE LET plan == FetchPlan(points, flag) IN
         CASE plan.kind = "request" ->
                [layer |-> layer, dist |-> dist, issued |-> TRUE,
                 reqs |-> Append(reqs, RouteReq(plan.coords, waiter, anchor, drop))]
           [] plan.kind = "null" ->
                [layer |-> <<>>, dist |-> 0, reqs |-> reqs, issued |-> FALSE]
           [] OTHER ->
                [layer |-> RouteFailed(layer).layer, dist |-> RouteFailed(layer).dist,
                 reqs |-> reqs, issued |-> FALSE]

\* The draft after `updateRoute()` called from a handler that awaits nothing
\* of it.
Recompute(points, flag) ==
    LET u == UpdateRoute(points, flag, routeLayer, currentRouteDistance,
                         routeReqs, 0, Hole, Hole)
    IN  /\ routeLayer' = u.layer
        /\ currentRouteDistance' = u.dist
        /\ routeReqs' = u.reqs

-----------------------------------------------------------------------------
(* Waypoint insertion helpers *)

\* an arc-length position that is undefined (the projection of an empty slot)
NoAlong == -1

SetMin(S) == CHOOSE x \in S : \A y \in S : x <= y

\* calculateCumulativeDistances
RECURSIVE CalculateCumulativeDistances(_)
CalculateCumulativeDistances(routeLatLngs) ==
    IF Len(routeLatLngs) = 0 THEN <<0>>
    ELSE IF Len(routeLatLngs) = 1 THEN <<0>>
    ELSE LET front == SubSeq(routeLatLngs, 1, Len(routeLatLngs) - 1)
             cum   == CalculateCumulativeDistances(front)
         IN  Append(cum, cum[Len(cum)]
                         + DistanceTo(routeLatLngs[Len(routeLatLngs) - 1],
                                      routeLatLngs[Len(routeLatLngs)]))

\* (mutant) the projection onto the line through A and B, not clamped to
\* the segment
ProjectOnLine(point, A, B) == IF A.lat.v = B.lat.v THEN A ELSE point

\* The clamped projection of point onto segment A-B (lat only: lng is 0
\* everywhere, so t = (Px - Ax) * Cx / Cx^2).
ProjectOnSegment(point, A, B) ==
    LET Cx  == B.lat.v - A.lat.v
        num == (point.lat.v - A.lat.v) * Cx
        lengthSquared == Cx * Cx
    IN  IF lengthSquared = 0 \/ num <= 0 THEN A
        ELSE IF num >= lengthSquared THEN B
        ELSE point

\* projectPointOntoPolyline: the first segment with the least distance wins.
ProjectPointOntoPolyline(point, routeLatLngs, cumulativeDistances) ==
    LET totalLength == cumulativeDistances[Len(cumulativeDistances)]
        segs == 1..(Len(routeLatLngs) - 1)
        proj(i) == ProjectOnSegment(point, routeLatLngs[i], routeLatLngs[i + 1])
        dist(i) == DistanceTo(proj(i), point)
        along(i) == cumulativeDistances[i] + DistanceTo(routeLatLngs[i], proj(i))
    IN  IF segs = {} THEN [distance |-> NoAlong, alongDistance |-> 0]
        ELSE LET best == SetMin({i \in segs : \A j \in segs : dist(i) <= dist(j)})
             IN  [distance |-> dist(best),
                  alongDistance |-> Max(0, Min(totalLength, along(best)))]

\* distanceAlongPolyline: the lengths of the segments before the nearest
\* one plus the distance from its start to the projection; the first
\* segment with the least distance wins. projectPointToSegment clamps as
\* ProjectOnSegment does.
DistanceAlongPolyline(latlngs, point) ==
    LET segs == 1..(Len(latlngs) - 1)
        proj(i) == ProjectOnSegment(point, latlngs[i], latlngs[i + 1])
        d(i) == DistanceTo(proj(i), point)
    IN  IF segs = {} THEN 0
        ELSE LET index == SetMin({i \in segs : \A j \in segs : d(i) <= d(j)})
             IN  PathLength(SubSeq(latlngs, 1, index))
                     + DistanceTo(latlngs[index], proj(index))

\* findBestInsertionIndex. Array.map leaves empty slots empty, and every
\* comparison with undefined is false.
FindBestInsertionIndex(routingPts, anchorPoint, routeLatLngs, cumulativeDistances) ==
    LET totalLength == cumulativeDistances[Len(cumulativeDistances)]
        m == Len(routingPts)
        routingPointsAlong(i) ==
            IF routingPts[i + 1] = Hole THEN NoAlong
            ELSE ProjectPointOntoPolyline(routingPts[i + 1], routeLatLngs,
                                          cumulativeDistances).alongDistance
        newAlong == ProjectPointOntoPolyline(anchorPoint, routeLatLngs,
                                             cumulativeDistances).alongDistance
        a(i) == routingPointsAlong(i)
        b0(i) == routingPointsAlong((i + 1) % m)
        defined(i) == a(i) # NoAlong /\ b0(i) # NoAlong
        wraps(i) == i = m - 1 /\ b0(i) <= a(i)
        b(i) == IF wraps(i) THEN b0(i) + totalLength ELSE b0(i)
        na(i) == IF newAlong < a(i) THEN newAlong + totalLength ELSE newAlong
        inGap(i) == defined(i) /\ na(i) > a(i) /\ na(i) <= b(i)
        gap(i) == IF wraps(i) THEN (b0(i) + totalLength) - a(i) ELSE b0(i) - a(i)
        hits == {i \in 0..(m - 1) : inGap(i)}
        gaps == {i \in 0..(m - 1) : defined(i)}
    IN  IF hits # {} THEN SetMin(hits) + 1
        ELSE IF gaps = {} THEN m
        ELSE SetMin({i \in gaps : \A j \in gaps : gap(i) <= gap(j)}) + 1

\* a fraction <<numerator, denominator>> with a positive denominator
FracLeq(p, q) == p[1] * q[2] <= q[1] * p[2]

\* getDistanceToLineSegment, as the square of the distance it returns (a
\* fraction): the square root is monotone and the callers only compare.
GetDistanceToLineSegment(point, lineStart, lineEnd) ==
    LET A == point.lat.v - lineStart.lat.v
        B == point.lng.v - lineStart.lng.v
        C == lineEnd.lat.v - lineStart.lat.v
        D == lineEnd.lng.v - lineStart.lng.v
        dot == A * C + B * D
        lenSq == C * C + D * D
        cross == A * D - B * C
        ex == point.lat.v - lineEnd.lat.v
        ey == point.lng.v - lineEnd.lng.v
    IN  IF lenSq = 0 \/ dot < 0 THEN <<A * A + B * B, 1>>
        ELSE IF dot > lenSq THEN <<ex * ex + ey * ey, 1>>
        ELSE <<cross * cross, lenSq>>

\* The index chosen by insertWaypointByNearestSegment: every pair
\* (i, (i + 1) % n) is a candidate; pairs with an empty slot are skipped.
\* (mutant) the candidate of the wrap-around pair is not moved to the end
NearestSegmentIndexUncorrected(routingPts, referencePoint) ==
    LET n == Len(routingPts)
        a(i) == routingPts[i + 1]
        b(i) == routingPts[((i + 1) % n) + 1]
        cands == {i \in 0..(n - 1) : a(i) # Hole /\ b(i) # Hole}
        d(i) == GetDistanceToLineSegment(referencePoint, a(i), b(i))
        bestSegmentIndex ==
            IF cands = {} THEN 0
            ELSE SetMin({i \in cands : \A j \in cands : FracLeq(d(i), d(j))})
    IN  IF cands = {} THEN 1 ELSE (bestSegmentIndex + 1) % n

NearestSegmentIndex(routingPts, referencePoint) ==
    LET n == Len(routingPts)
        a(i) == routingPts[i + 1]
        b(i) == routingPts[((i + 1) % n) + 1]
        cands == {i \in 0..(n - 1) : a(i) # Hole /\ b(i) # Hole}
        d(i) == GetDistanceToLineSegment(referencePoint, a(i), b(i))
        bestSegmentIndex ==
            IF cands = {} THEN 0
            ELSE SetMin({i \in cands : \A j \in cands : FracLeq(d(i), d(j))})
        bestCandidate == IF cands = {} THEN 1 ELSE (bestSegmentIndex + 1) % n
    IN  IF bestCandidate = 0 /\ bestSegmentIndex = n - 1 THEN n ELSE bestCandidate

-----------------------------------------------------------------------------
(* The draft: inputs of the model *)

\* where the user clicks, drops a dragged marker or a dragged route point
RawPoints == {P(1), P(5)}
\* where on the route line a drag of the line begins
AnchorPoints == {P(3), P(4)}
\* how a snap request can end: a snapped location, a non-success status,
\* an empty waypoint list, a body that is not the expected JSON, a
\* rejected fetch
SnapAnswers == {"ok", "status", "empty", "malformed", "network"}

\* a saved route record (src/src/types.ts:14-22)
SavedRoute(id, name, description, points, distance, flag, created) ==
    [id |-> id, name |-> name, description |-> description, points |-> points,
     distance |-> distance, isRoundTrip |-> flag, created |-> created]

\* what an earlier session left in durable storage
StoredLoop == SavedRoute(1, "Loop", "", <<P(2), P(6)>>, 4, TRUE, 1)

\* a call suspended in `await snapToNearestRoad(pt)`:
\*   add  - addRoutingPoint
\*   drag - the dragend handler of the marker with pointIndex idx
\*   insP - insertWaypointByPolylineProjection, insertIndex idx
\*   insN - insertWaypointByNearestSegment, insertIndex idx
\* n counts the points the enclosing insertWaypointAtBestPosition call has
\* spliced in so far.
SnapOp(kind, pt, idx, anchor, n) ==
    [kind |-> kind, pt |-> pt, idx |-> idx, anchor |-> anchor, n |-> n]

Without(seq, i) == SubSeq(seq, 1, i - 1) \o SubSeq(seq, i + 1, Len(seq))

\* points that suspended calls will still add to the draft
PendingGrowth == Len(SelectSeq(snapReqs, LAMBDA o : o.kind # "drag"))

CanRecompute == Len(routeReqs) < MaxInFlight

Init ==
    /\ IdleDraft /\ IdleLoop
    /\ savedRoutes = <<StoredLoop>> /\ nextId = 2
    /\ last = NullLast
    /\ args = NoArgs /\ result = NoResult

-----------------------------------------------------------------------------
(* addRoutingPoint *)

\* A click on the map: every registered 'click' listener calls
\* addRoutingPoint, which suspends in the snap request.
MapClick(latlng) ==
    /\ gestures < MaxGestures /\ gestures' = gestures + 1
    /\ clickHandlers >= 1
    /\ Len(snapReqs) + clickHandlers <= MaxInFlight
    /\ Len(routingPoints) + PendingGrowth + clickHandlers <= MaxPoints
    /\ snapReqs' = snapReqs \o [i \in 1..clickHandlers |-> SnapOp("add", latlng, 0, Hole, 0)]
    /\ last' = Did("click", clickHandlers, 0)
    /\ UNCHANGED <<draftVars, routeReqs, clickHandlers, timers, dragging, storeVars, pureVars>>

\* addRoutingPoint resumes with the snap result.
AddRoutingPointResume(i, answer) ==
    /\ UNCHANGED gestures
    /\ snapReqs[i].kind = "add"
    /\ CanRecompute
    /\ IF SnapThrows(answer)
       THEN \* the call ends with the exception, before the push
            UNCHANGED <<routingPoints, isRouteModified, routingMarkers, routeLayer,
                        currentRouteDistance, routeReqs>>
       ELSE LET latlng == snapReqs[i].pt
                pointToAdd == OrElse(SnapToNearestRoad(latlng, answer), latlng)
                points == Append(routingPoints, pointToAdd)
            IN  /\ routingPoints' = points
                /\ isRouteModified' = TRUE
                /\ routingMarkers' = RedrawMarkers(points)
                /\ Recompute(points, isRoundTrip)
    /\ snapReqs' = Without(snapReqs, i)
    /\ last' = Did("add", i, answer)
    /\ UNCHANGED <<currentLoadedRouteId, isRoundTrip, clickHandlers, timers, dragging,
                   storeVars, pureVars>>

-----------------------------------------------------------------------------
(* removeRoutingPoint, resetRoute, loadSavedRoute, the round-trip button *)

\* (mutant) the range check admits index = length
RemoveInRangeInclusive(index, points) == index >= 0 /\ index <= Len(points)

\* the range check of removeRoutingPoint
RemoveInRange(index, points) == index >= 0 /\ index < Len(points)

\* (mutant) removeRoutingPoint leaves isRouteModified as it is
RemoveRoutingPointUnmarked(index) ==
    /\ gestures < MaxGestures /\ gestures' = gestures + 1
    /\ CanRecompute
    /\ IF RemoveInRange(index, routingPoints)
       THEN LET points == SpliceOut(routingPoints, index)
            IN  /\ routingPoints' = points
                /\ UNCHANGED isRouteModified
                /\ routingMarkers' = RedrawMarkers(points)
                /\ Recompute(points, isRoundTrip)
       ELSE UNCHANGED <<routingPoints, isRouteModified, routingMarkers, routeLayer,
                        currentRouteDistance, routeReqs>>
    /\ last' = Did("remove", index, Len(routingPoints))
    /\ UNCHANGED <<currentLoadedRouteId, isRoundTrip, snapReqs, clickHandlers, timers,
                   dragging, storeVars, pureVars>>

RemoveRoutingPoint(index) ==
    /\ gestures < MaxGestures /\ gestures' = gestures + 1
    /\ CanRecompute
    /\ IF RemoveInRange(index, routingPoints)
       THEN LET points == SpliceOut(routingPoints, index)
            IN  /\ routingPoints' = points
                /\ isRouteModified' = TRUE
                /\ routingMarkers' = RedrawMarkers(points)
                /\ Recompute(points, isRoundTrip)
       ELSE UNCHANGED <<routingPoints, isRouteModified, routingMarkers, routeLayer,
                        currentRouteDistance, routeReqs>>
    /\ last' = Did("remove", index, Len(routingPoints))
    /\ UNCHANGED <<currentLoadedRouteId, isRoundTrip, snapReqs, clickHandlers, timers,
                   dragging, storeVars, pureVars>>

\* (mutant) resetRoute forgets to clear currentLoadedRouteId
ResetRouteKeepsLoadedId ==
    /\ gestures < MaxGestures /\ gestures' = gestures + 1
    /\ routingPoints' = <<>>
    /\ routingMarkers' = <<>>
    /\ routeLayer' = <<>>
    /\ currentRouteDistance' = 0
    /\ isRouteModified' = FALSE
    /\ last' = Did("reset", 0, 0)
    /\ UNCHANGED <<currentLoadedRouteId, isRoundTrip, loopVars, storeVars, pureVars>>

\* (mutant) resetRoute also empties the saved-route store
ResetRouteClearsStore ==
    /\ gestures < MaxGestures /\ gestures' = gestures + 1
    /\ routingPoints' = <<>>
    /\ routingMarkers' = <<>>
    /\ routeLayer' = <<>>
    /\ currentRouteDistance' = 0
    /\ currentLoadedRouteId' = 0
    /\ isRouteModified' = FALSE
    /\ savedRoutes' = <<>>
    /\ last' = Did("reset", 0, 0)
    /\ UNCHANGED <<isRoundTrip, loopVars, nextId, pureVars>>

ResetRoute ==
    /\ gestures < MaxGestures /\ gestures' = gestures + 1
    /\ routingPoints' = <<>>
    /\ routingMarkers' = <<>>
    /\ routeLayer' = <<>>
    /\ currentRouteDistance' = 0
    /\ currentLoadedRouteId' = 0
    /\ isRouteModified' = FALSE
    /\ last' = Did("reset", 0, 0)
    /\ UNCHANGED <<isRoundTrip, loopVars, storeVars, pureVars>>

\* (mutant) the lookup takes the first record whatever its id
FindByIdFirst(routes, id) == IF Len(routes) = 0 THEN 0 ELSE 1

\* routes.find(r => r.id === routeId): the position of the record, 0 if none
FindById(routes, id) ==
    IF \E k \in 1..Len(routes) : routes[k].id = id
    THEN SetMin({k \in 1..Len(routes) : routes[k].id = id})
    ELSE 0

LoadSavedRoute(routeId) ==
    /\ gestures < MaxGestures /\ gestures' = gestures + 1
    /\ CanRecompute
    /\ LET k == FindById(savedRoutes, routeId) IN
       IF k = 0
       THEN /\ last' = Did("loadMissing", routeId, 0)
            /\ UNCHANGED <<draftVars, routeReqs>>
       ELSE LET route == savedRoutes[k]
                points == [i \in 1..Len(route.points) |->
                              LatLng(route.points[i].lat, route.points[i].lng)]
                \* resetRoute cleared the layer; the saved distance is shown
                \* until updateRoute runs
                u == UpdateRoute(points, route.isRoundTrip, <<>>, route.distance,
                                 routeReqs, 0, Hole, Hole)
            IN  /\ routingPoints' = points
                /\ currentLoadedRouteId' = routeId
                /\ isRoundTrip' = route.isRoundTrip
                /\ isRouteModified' = FALSE
                /\ routingMarkers' = RedrawMarkers(points)
                /\ routeLayer' = u.layer
                /\ currentRouteDistance' = u.dist
                /\ routeReqs' = u.reqs
                /\ last' = Did("load", routeId, 0)
    /\ UNCHANGED <<snapReqs, clickHandlers, timers, dragging, storeVars, pureVars>>

\* the click listener of the round-trip button
ToggleRoundTrip ==
    /\ gestures < MaxGestures /\ gestures' = gestures + 1
    /\ CanRecompute
    /\ isRoundTrip' = ~isRoundTrip
    /\ Recompute(routingPoints, ~isRoundTrip)
    /\ last' = Did("toggle", 0, 0)
    /\ UNCHANGED <<routingPoints, routingMarkers, currentLoadedRouteId, isRouteModified,
                   snapReqs, clickHandlers, timers, dragging, storeVars, pureVars>>

-----------------------------------------------------------------------------
(* Marker drags: the dragstart / dragend listeners of createNumberedMarker *)

\* dragstart: map.off('click') removes every 'click' listener
DragStart(j) ==
    /\ gestures < MaxGestures /\ gestures' = gestures + 1
    /\ dragging = 0
    /\ j \in 1..Len(routingMarkers)
    /\ clickHandlers' = 0
    /\ dragging' = routingMarkers[j].pointIndex + 1
    /\ last' = Did("dragstart", j, 0)
    /\ UNCHANGED <<draftVars, snapReqs, routeReqs, timers, storeVars, pureVars>>

\* dragend, up to `await snapToNearestRoad(newLatLng)`
DragEnd(newLatLng) ==
    /\ UNCHANGED gestures
    /\ dragging # 0
    /\ Len(snapReqs) < MaxInFlight
    /\ snapReqs' = Append(snapReqs, SnapOp("drag", newLatLng, dragging - 1, Hole, 0))
    /\ dragging' = 0
    /\ last' = Did("dragend", dragging - 1, 0)
    /\ UNCHANGED <<draftVars, routeReqs, clickHandlers, timers, storeVars, pureVars>>

\* dragend resumes: the point at the marker's pointIndex is overwritten,
\* the route recomputed and the re-enable timer started
DragEndResume(i, answer) ==
    /\ UNCHANGED gestures
    /\ snapReqs[i].kind = "drag"
    /\ CanRecompute
    /\ timers < MaxInFlight
    /\ LET newLatLng == snapReqs[i].pt
           snappedPoint == SnapToNearestRoad(newLatLng, answer)
           points == AssignAt(routingPoints, snapReqs[i].idx,
                              OrElse(snappedPoint, newLatLng))
       IN  /\ routingPoints' = points
           /\ isRouteModified' = TRUE
           /\ Recompute(points, isRoundTrip)
    /\ timers' = timers + 1
    /\ snapReqs' = Without(snapReqs, i)
    /\ last' = Did("move", snapReqs[i].idx, 0)
    /\ UNCHANGED <<routingMarkers, currentLoadedRouteId, isRoundTrip, clickHandlers,
                   dragging, storeVars, pureVars>>

\* the setTimeout callback: map.on('click', ...) adds one more listener
ReenableClick ==
    /\ UNCHANGED gestures
    /\ timers > 0
    /\ timers' = timers - 1
    /\ clickHandlers' = clickHandlers + 1
    /\ last' = Did("timer", 0, 0)
    /\ UNCHANGED <<draftVars, snapReqs, routeReqs, dragging, storeVars, pureVars>>

-----------------------------------------------------------------------------
(* insertWaypointAtBestPosition *)

\* (mutant) only an empty draft is refused
TooFewToInsertEmpty(points) == Len(points) < 1

\* `if (state.routingPoints.length < 2) return;`
TooFewToInsert(points) == Len(points) < 2

\* Up to the first suspension. The polyline is the one on display
\* (findPolylineForInsertion); the insertion index is computed before the
\* snap request is sent.
InsertWaypointAtBestPosition(dropPoint, anchorPoint) ==
    /\ gestures < MaxGestures /\ gestures' = gestures + 1
    /\ IF TooFewToInsert(routingPoints)
       THEN /\ last' = Did("insertIgnored", 0, 0)
            /\ UNCHANGED snapReqs
       ELSE /\ Len(snapReqs) < MaxInFlight
            /\ Len(routingPoints) + PendingGrowth < MaxPoints
            /\ LET usedPolyline == routeLayer IN
               IF usedPolyline # <<>> /\ Len(usedPolyline) >= 2
               THEN LET cumulativeDistances == CalculateCumulativeDistances(usedPolyline)
                        insertIndex == FindBestInsertionIndex(routingPoints, anchorPoint,
                                           usedPolyline, cumulativeDistances)
                    IN  snapReqs' = Append(snapReqs,
                            SnapOp("insP", dropPoint, insertIndex, anchorPoint, 0))
               ELSE snapReqs' = Append(snapReqs,
                        SnapOp("insN", dropPoint,
                               NearestSegmentIndex(routingPoints, anchorPoint),
                               anchorPoint, 0))
            /\ last' = Did("insert", 0, 0)
    /\ UNCHANGED <<draftVars, routeReqs, clickHandlers, timers, dragging, storeVars, pureVars>>

\* insertWaypointByPolylineProjection / insertWaypointByNearestSegment
\* resume with the snap result: splice, redraw, recompute. The projection
\* method then waits in `await updateRoute()`.
InsertResume(i, answer) ==
    /\ UNCHANGED gestures
    /\ snapReqs[i].kind \in {"insP", "insN"}
    /\ CanRecompute
    /\ LET op == snapReqs[i]
           pointToInsert == OrElse(SnapToNearestRoad(op.pt, answer), op.pt)
           points == Splice(routingPoints, op.idx, pointToInsert)
           u == UpdateRoute(points, isRoundTrip, routeLayer, currentRouteDistance,
                            routeReqs, IF op.kind = "insP" THEN op.n + 1 ELSE 0,
                            op.anchor, op.pt)
       IN  /\ routingPoints' = points
           /\ isRouteModified' = TRUE
           /\ routingMarkers' = RedrawMarkers(points)
           /\ routeLayer' = u.layer
           /\ currentRouteDistance' = u.dist
           /\ routeReqs' = u.reqs
           /\ last' = Did("insertSplice", op.n + 1, i)
    /\ snapReqs' = Without(snapReqs, i)
    /\ UNCHANGED <<currentLoadedRouteId, isRoundTrip, clickHandlers, timers, dragging,
                   storeVars, pureVars>>

-----------------------------------------------------------------------------
(* updateRoute resumes with the backend's answer *)

RouteResponse(i, answer) ==
    /\ UNCHANGED gestures
    /\ i \in 1..Len(routeReqs)
    /\ LET req == routeReqs[i]
           route == RouteAnswer(req.coords, answer)
       IN  /\ IF answer = "fail"
              THEN /\ routeLayer' = RouteFailed(routeLayer).layer
                   /\ currentRouteDistance' = RouteFailed(routeLayer).dist
              ELSE /\ routeLayer' = GeoToLatLngs(route.geometry)
                   /\ currentRouteDistance' = route.distance
           \* a projection insertion waiting on updateRoute falls back to
           \* the nearest-segment method only if the await throws
           /\ snapReqs' =
                 IF req.waiter > 0 /\ UpdateRouteRejects(answer)
                 THEN Append(snapReqs,
                             SnapOp("insN", req.drop,
                                    NearestSegmentIndex(routingPoints, req.anchor),
                                    req.anchor, req.waiter))
                 ELSE snapReqs
    /\ routeReqs' = Without(routeReqs, i)
    /\ last' = Did(IF answer = "fail" THEN "routeFailed" ELSE "routeDrawn",
                   i, Len(routeReqs) - i)
    /\ UNCHANGED <<routingPoints, routingMarkers, currentLoadedRouteId, isRoundTrip,
                   isRouteModified, clickHandlers, timers, dragging, storeVars, pureVars>>

-----------------------------------------------------------------------------
(* The draft editor *)

LoadIds == {1, 2}

Next ==
    \/ \E latlng \in RawPoints : MapClick(latlng)
    \/ \E i \in 1..Len(snapReqs), answer \in SnapAnswers : AddRoutingPointResume(i, answer)
    \/ \E index \in -1..MaxPoints : RemoveRoutingPoint(index)
    \/ ResetRoute
    \/ \E routeId \in LoadIds : LoadSavedRoute(routeId)
    \/ ToggleRoundTrip
    \/ \E j \in 1..MaxPoints : DragStart(j)
    \/ \E newLatLng \in RawPoints : DragEnd(newLatLng)
    \/ \E i \in 1..Len(snapReqs), answer \in SnapAnswers : DragEndResume(i, answer)
    \/ ReenableClick
    \/ \E dropPoint \in RawPoints, anchorPoint \in AnchorPoints :
          InsertWaypointAtBestPosition(dropPoint, anchorPoint)
    \/ \E i \in 1..Len(snapReqs), answer \in SnapAnswers : InsertResume(i, answer)
    \/ \E i \in 1..Len(routeReqs), answer \in RouteAnswers : RouteResponse(i, answer)

Spec == Init /\ [][Next]_vars

-----------------------------------------------------------------------------
(* C2: a route response that belongs to a request issued before a later    *)
(* mutation is discarded: once no response is outstanding, the geometry    *)
(* and the distance put on display by a response are those of a response   *)
(* to the request for the current point list and round-trip flag.          *)
C2_StaleResponseDiscarded ==
    (last.op = "routeDrawn" /\ routeReqs = <<>>) =>
        LET plan == FetchPlan(routingPoints, isRoundTrip) IN
        /\ Len(routingPoints) >= 2
        /\ plan.kind = "request"
        /\ \E answer \in {"ok", "short"} :
              /\ routeLayer = GeoToLatLngs(RouteAnswer(plan.coords, answer).geometry)
              /\ currentRouteDistance = RouteAnswer(plan.coords, answer).distance

(* C3: after a failed route recompute the distance is 0 and the displayed  *)
(* route geometry is cleared.                                              *)
C3_FailureClearsRoute ==
    last.op = "routeFailed" => (currentRouteDistance = 0 /\ routeLayer = <<>>)

(* C4: in every reachable state, a draft of fewer than 2 points has        *)
(* distance 0 and no route geometry on display.                            *)
C4_FewPointsNoRoute ==
    Len(routingPoints) < 2 => (currentRouteDistance = 0 /\ routeLayer = <<>>)

(* C5: one call of insertWaypointAtBestPosition changes the length of the  *)
(* point list by at most 1, whichever method runs: the call splices at     *)
(* most once, its splice adds exactly one point and keeps the others in    *)
(* order, and the point added is the snapped drop point, or the raw drop   *)
(* point when snapping fails, never the anchor point.                      *)
C5_InsertAtMostOne ==
    [][ /\ last'.op \in {"insert", "insertIgnored"} => routingPoints' = routingPoints
        /\ last'.op = "insertSplice" =>
              LET op == snapReqs[last'.b]
                  k  == Min(op.idx, Len(routingPoints)) + 1
              IN  /\ last'.a = 1
                  /\ Len(routingPoints') = Len(routingPoints) + 1
                  /\ routingPoints'[k] \in {SnapLocation(op.pt), op.pt}
                  /\ routingPoints'[k] # op.anchor
                  /\ \A j \in 1..Len(routingPoints) :
                        routingPoints'[IF j < k THEN j ELSE j + 1] = routingPoints[j]
      ]_vars

\* The projection method has spliced its point in and waits for the
\* recompute inside `await updateRoute()`.
C5_Witness ==
    /\ last.op = "insertSplice"
    /\ Len(routingPoints) = 3
    /\ \E r \in 1..Len(routeReqs) : routeReqs[r].waiter = 1

(* C6: removeRoutingPoint(index) with index < 0 or index >= length leaves  *)
(* points, markers, isRouteModified, distance and geometry unchanged and   *)
(* triggers no recompute; with a valid index exactly the point at that     *)
(* index is removed and the others keep their order.                       *)
C6_RemoveOutOfRangeNoop ==
    [][ last'.op = "remove" =>
          LET index == last'.a
              n     == Len(routingPoints)
          IN  IF index < 0 \/ index >= n
              THEN UNCHANGED <<routingPoints, routingMarkers, isRouteModified,
                               currentRouteDistance, routeLayer, routeReqs>>
              ELSE /\ Len(routingPoints') = n - 1
                   /\ \A j \in 1..(n - 1) :
                         routingPoints'[j] = routingPoints[IF j <= index THEN j ELSE j + 1]
      ]_vars

\* Scenario D: an index past the end of a 3-point list.
C6_Witness ==
    /\ last.op = "remove"
    /\ last.a = 3 /\ last.b = 3
    /\ Len(routingPoints) = 3

(* C10: the add-point click handler is absent while a marker drag is in    *)
(* progress, and at no time is more than one such handler registered on    *)
(* the map.                                                                *)
C10_OneClickHandler ==
    /\ clickHandlers <= 1
    /\ dragging # 0 => clickHandlers = 0

-----------------------------------------------------------------------------
(* The saved-route store *)

\* the size of JSON.stringify(routes): it grows with every record and
\* with every point of a record
RECURSIVE StoredSize(_)
StoredSize(routes) ==
    IF routes = <<>> THEN 0
    ELSE 1 + Len(Head(routes).points) + StoredSize(Tail(routes))

\* saveSavedRoutes: localStorage.setItem throws when the quota is exceeded,
\* the error is caught and the stored value stays as it was
SaveSavedRoutes(routes, stored) ==
    IF StoredSize(routes) <= StorageQuota THEN routes ELSE stored

NameExists(routes, name) == \E k \in 1..Len(routes) : routes[k].name = name

\* (mutant) the rename conflict check finds nothing
RenameConflictNever(routes, routeId, newName) == FALSE

\* routes.some(r => r.name === newName && r.id !== routeId)
RenameConflict(routes, routeId, newName) ==
    \E k \in 1..Len(routes) : routes[k].name = newName /\ routes[k].id # routeId

\* whether saveCurrentRoute gets as far as generateRouteId()
SaveGeneratesId(points, name, confirmed) ==
    Len(points) # 0 /\ (NameExists(savedRoutes, name) => confirmed)

\* saveCurrentRoute: the store it leaves behind; id is the generated id
SaveCurrentRoute(points, distance, name, description, flag, confirmed, id) ==
    LET routes == savedRoutes
        newRoute == SavedRoute(id, name, description, points, distance, flag, id)
    IN  IF Len(points) = 0 THEN routes
        ELSE IF NameExists(routes, name)
        THEN IF ~confirmed THEN routes
             ELSE LET filtered == SelectSeq(routes, LAMBDA r : r.name # name)
                      stored   == SaveSavedRoutes(filtered, routes)
                  IN  SaveSavedRoutes(Append(stored, newRoute), stored)
        ELSE SaveSavedRoutes(Append(routes, newRoute), routes)

\* (mutant) the updated record is moved to the end of the list
UpdateExistingRouteMoved(routeId, points, distance, name, description, flag) ==
    LET routes == savedRoutes
        k == FindById(routes, routeId)
    IN  IF k = 0 THEN routes
        ELSE IF RenameConflict(routes, routeId, name) THEN routes
        ELSE SaveSavedRoutes(
                 Append(SelectSeq(routes, LAMBDA r : r.id # routeId),
                        [routes[k] EXCEPT !.name = name,
                                          !.description = description,
                                          !.points = points,
                                          !.distance = distance,
                                          !.isRoundTrip = flag]),
                 routes)

\* updateExistingRoute: the store it leaves behind
UpdateExistingRoute(routeId, points, distance, name, description, flag) ==
    LET routes == savedRoutes
        k == FindById(routes, routeId)
    IN  IF k = 0 THEN routes
        ELSE IF RenameConflict(routes, routeId, name) THEN routes
        ELSE SaveSavedRoutes(
                 [routes EXCEPT ![k] = [@ EXCEPT !.name = name,
                                                 !.description = description,
                                                 !.points = points,
                                                 !.distance = distance,
                                                 !.isRoundTrip = flag]],
                 routes)

\* The submit listener of the save-route form.
SaveRouteSubmit(name, description, selectedAction, confirmed) ==
    /\ gestures < MaxGestures /\ gestures' = gestures + 1
    /\ nextId <= MaxIds
    /\ IF currentLoadedRouteId # 0 /\ selectedAction = "update"
       THEN /\ savedRoutes' = UpdateExistingRoute(currentLoadedRouteId, routingPoints,
                                  currentRouteDistance, name, description, isRoundTrip)
            /\ UNCHANGED <<currentLoadedRouteId, nextId>>
            /\ last' = Did("update", name, currentLoadedRouteId)
       ELSE /\ savedRoutes' = SaveCurrentRoute(routingPoints, currentRouteDistance, name,
                                  description, isRoundTrip, confirmed, nextId)
            /\ nextId' = IF SaveGeneratesId(routingPoints, name, confirmed)
                          THEN nextId + 1 ELSE nextId
            /\ currentLoadedRouteId' = 0
            /\ last' = Did("save", name, confirmed)
    /\ isRouteModified' = FALSE
    /\ UNCHANGED <<routingPoints, routingMarkers, routeLayer, currentRouteDistance,
                   isRoundTrip, loopVars, pureVars>>

DeleteSavedRoute(routeId, confirmed) ==
    /\ gestures < MaxGestures /\ gestures' = gestures + 1
    /\ savedRoutes' =
          IF FindById(savedRoutes, routeId) # 0 /\ confirmed
          THEN SaveSavedRoutes(SelectSeq(savedRoutes, LAMBDA r : r.id # routeId),
                               savedRoutes)
          ELSE savedRoutes
    /\ last' = Did("delete", routeId, confirmed)
    /\ UNCHANGED <<draftVars, loopVars, nextId, pureVars>>

RenameSavedRoute(routeId, newName) ==
    /\ gestures < MaxGestures /\ gestures' = gestures + 1
    /\ LET routes == savedRoutes
           k == FindById(routes, routeId)
       IN  savedRoutes' =
              IF k = 0 THEN routes
              ELSE IF RenameConflict(routes, routeId, newName) THEN routes
              ELSE SaveSavedRoutes([routes EXCEPT ![k].name = newName], routes)
    /\ last' = Did("rename", routeId, newName)
    /\ UNCHANGED <<draftVars, loopVars, nextId, pureVars>>

\* the click listener of "delete selected"
DeleteSelectedRoutes(selectedIds, confirmed) ==
    /\ gestures < MaxGestures /\ gestures' = gestures + 1
    /\ savedRoutes' =
          IF selectedIds # {} /\ confirmed
          THEN SaveSavedRoutes(SelectSeq(savedRoutes, LAMBDA r : r.id \notin selectedIds),
                               savedRoutes)
          ELSE savedRoutes
    /\ last' = Did("deleteSelected", Cardinality(selectedIds), confirmed)
    /\ UNCHANGED <<draftVars, loopVars, nextId, pureVars>>

-----------------------------------------------------------------------------
(* Imports *)

\* (mutant) the imported record keeps the id of the document
ImportedIdKept(route, generated) == route.id

\* `{...route, id: generateRouteId(), ...}`: the id of the stored record
ImportedId(route, generated) == generated

\* A value read from a JSON document where an array is expected
JsArray(elements) == [t |-> "array", v |-> elements]
NoArray == [t |-> "undef", v |-> <<>>]

\* (mutant) only the name of an imported record is validated
InvalidRouteNameOnly(route) == route.name = ""

\* `!route.name || !route.points || !Array.isArray(route.points)`
InvalidRoute(route) == route.name = "" \/ route.points.t # "array"

\* The loop of importSavedRoutes over the records of the document.
\* overwrite: the names for which the user confirms the overwrite prompt.
\* Yields the new currentRoutes, the next unused id and the two counters.
RECURSIVE ImportLoop(_, _, _, _, _, _)
ImportLoop(importedRoutes, currentRoutes, id, overwrite, importedCount, skippedCount) ==
    IF importedRoutes = <<>>
    THEN [routes |-> currentRoutes, id |-> id,
          importedCount |-> importedCount, skippedCount |-> skippedCount]
    ELSE LET route == Head(importedRoutes)
             rest  == Tail(importedRoutes)
             newRoute == [route EXCEPT !.id = ImportedId(route, id),
                                       !.points = route.points.v]
         IN  IF InvalidRoute(route)
             THEN ImportLoop(rest, currentRoutes, id, overwrite,
                             importedCount, skippedCount + 1)
             ELSE IF NameExists(currentRoutes, route.name)
             THEN IF route.name \notin overwrite
                  THEN ImportLoop(rest, currentRoutes, id, overwrite,
                                  importedCount, skippedCount + 1)
                  ELSE LET index == SetMin({k \in 1..Len(currentRoutes) :
                                               currentRoutes[k].name = route.name}) - 1
                       IN  ImportLoop(rest,
                                      Append(SpliceOut(currentRoutes, index), newRoute),
                                      id + 1, overwrite, importedCount + 1, skippedCount)
             ELSE ImportLoop(rest, Append(currentRoutes, newRoute), id + 1, overwrite,
                             importedCount + 1, skippedCount)

\* reader.onload of importSavedRoutes
ImportSavedRoutes(importedRoutes, overwrite) ==
    /\ gestures < MaxGestures /\ gestures' = gestures + 1
    /\ nextId + Len(importedRoutes) - 1 <= MaxIds
    /\ LET r == ImportLoop(importedRoutes, savedRoutes, nextId, overwrite, 0, 0)
       IN  /\ savedRoutes' = SaveSavedRoutes(r.routes, savedRoutes)
           /\ nextId' = r.id
           /\ last' = Did("import",
                          [document |-> importedRoutes, overwrite |-> overwrite],
                          [importedCount |-> r.importedCount,
                           skippedCount |-> r.skippedCount])
    /\ UNCHANGED <<draftVars, loopVars, pureVars>>

\* The submit listener of the import form for a GPX file, after
\* `await importGPX(...)`: the parsed route is stored and becomes the draft.
\* A parsed GPX route has no isRoundTrip field, which reads as false.
ImportGpxSubmit(routeName, points) ==
    /\ gestures < MaxGestures /\ gestures' = gestures + 1
    /\ nextId <= MaxIds
    /\ CanRecompute
    /\ LET imported == SavedRoute(nextId, routeName, "Imported from GPX", points,
                                  0, FALSE, nextId)
           u == UpdateRoute(points, FALSE, routeLayer, 0, routeReqs, 0, Hole, Hole)
       IN  /\ savedRoutes' = SaveSavedRoutes(Append(savedRoutes, imported), savedRoutes)
           /\ routingPoints' = points
           /\ currentLoadedRouteId' = imported.id
           /\ isRouteModified' = FALSE
           /\ isRoundTrip' = FALSE
           /\ routeLayer' = u.layer
           /\ currentRouteDistance' = u.dist
           /\ routeReqs' = u.reqs
           /\ routingMarkers' = RedrawMarkers(points)
    /\ nextId' = nextId + 1
    /\ last' = Did("gpx", routeName, 0)
    /\ UNCHANGED <<snapReqs, clickHandlers, timers, dragging, pureVars>>

-----------------------------------------------------------------------------
(* The store manager: inputs and specification *)

Names == {"Loop", "Hill"}

\* A record as it stands in a JSON document
Exported(route) == [route EXCEPT !.points = JsArray(route.points)]

\* documents offered for import: an export of this store, a foreign
\* document with a record that has no name and one that has no points, and
\* a document with the same name twice
ExportedDoc ==
    <<Exported(SavedRoute(1, "Loop", "exported", <<P(2), P(6)>>, 4, TRUE, 1)),
      Exported(SavedRoute(1, "Hill", "exported", <<P(2)>>, 0, FALSE, 1))>>
ForeignDoc ==
    <<Exported(SavedRoute(100, "", "foreign", <<P(2)>>, 0, FALSE, 100)),
      Exported(SavedRoute(101, "Hill", "foreign", <<P(2), P(6)>>, 4, FALSE, 101)),
      [SavedRoute(102, "Loop", "foreign", <<>>, 0, FALSE, 102) EXCEPT !.points = NoArray]>>
TwiceDoc ==
    <<Exported(SavedRoute(200, "Hill", "first", <<P(2)>>, 0, FALSE, 200)),
      Exported(SavedRoute(201, "Hill", "second", <<P(6)>>, 0, FALSE, 201))>>
Documents == {ExportedDoc, ForeignDoc, TwiceDoc}

GpxTracks == {<<P(2), P(6)>>, <<P(2)>>}

StoredIds == {savedRoutes[k].id : k \in 1..Len(savedRoutes)}

NextStore ==
    \/ \E name \in Names, selectedAction \in {"new", "update"}, confirmed \in BOOLEAN :
          SaveRouteSubmit(name, "", selectedAction, confirmed)
    \/ \E routeId \in StoredIds \cup {0}, confirmed \in BOOLEAN :
          DeleteSavedRoute(routeId, confirmed)
    \/ \E routeId \in StoredIds \cup {0}, newName \in Names :
          RenameSavedRoute(routeId, newName)
    \/ \E selectedIds \in SUBSET StoredIds, confirmed \in BOOLEAN :
          DeleteSelectedRoutes(selectedIds, confirmed)
    \/ \E importedRoutes \in Documents, overwrite \in SUBSET Names :
          ImportSavedRoutes(importedRoutes, overwrite)
    \/ \E routeName \in Names, points \in GpxTracks : ImportGpxSubmit(routeName, points)
    \/ \E routeId \in LoadIds : LoadSavedRoute(routeId)
    \/ \E i \in 1..Len(routeReqs), answer \in RouteAnswers : RouteResponse(i, answer)

SpecStore == Init /\ [][NextStore]_vars

-----------------------------------------------------------------------------
(* C7: after any sequence of store operations (save, overwrite, update,    *)
(* rename, delete, bulk delete, JSON import, GPX import) no two records of *)
(* the saved-route store have the same name.                               *)
C7_UniqueNames ==
    \A i, j \in 1..Len(savedRoutes) :
        i # j => savedRoutes[i].name # savedRoutes[j].name

(* C8: saving under a name an existing record has, with the overwrite      *)
(* confirmation declined, and renaming a record to a name held by a record *)
(* with a different id, both leave the store exactly as it was.            *)
C8_DeclinedLeavesStore ==
    [][ /\ (/\ last'.op = "save"
            /\ NameExists(savedRoutes, last'.a)
            /\ last'.b = FALSE) => savedRoutes' = savedRoutes
        /\ (/\ last'.op = "rename"
            /\ \E k \in 1..Len(savedRoutes) :
                  savedRoutes[k].name = last'.b /\ savedRoutes[k].id # last'.a)
              => savedRoutes' = savedRoutes
      ]_vars

\* Scenario E: a save as "Loop" was declined while "Loop" is stored; the
\* one "Loop" record is the original.
C8_Witness ==
    /\ last.op = "save" /\ last.a = "Loop" /\ last.b = FALSE
    /\ Len(routingPoints) > 0
    /\ savedRoutes = <<StoredLoop>>

(* C9: every record importSavedRoutes stores carries an id generated       *)
(* during that import, never the id of the imported document, and after    *)
(* any sequence of save and import operations the ids in the store are     *)
(* pairwise distinct.                                                      *)
C9_ImportFreshIds ==
    [][ /\ last'.op = "import" =>
              \A k \in 1..Len(savedRoutes') :
                  (\A m \in 1..Len(savedRoutes) : savedRoutes[m] # savedRoutes'[k])
                      => savedRoutes'[k].id \in nextId..(nextId' - 1)
        /\ \A i, j \in 1..Len(savedRoutes') :
              i # j => savedRoutes'[i].id # savedRoutes'[j].id
      ]_vars

\* The export of the store has been imported twice, overwriting on the
\* second pass: the store holds the records of the second import.
C9_Witness ==
    /\ last.op = "import"
    /\ Len(savedRoutes) = 2
    /\ savedRoutes[1].description = "exported" /\ savedRoutes[1].id > 3
    /\ savedRoutes[2].description = "exported" /\ savedRoutes[2].id > 3

-----------------------------------------------------------------------------
(* C11: from the dragstart of a marker until the dragged point has been    *)
(* written into the point list, no other mutation (an add completing after *)
(* its snap, a removal, an insertion, a reset, a load) changes the point   *)
(* list.                                                                   *)
C11_NoMutationMidDrag ==
    [][ (/\ \/ dragging # 0
            \/ \E i \in 1..Len(snapReqs) : snapReqs[i].kind = "drag"
         /\ last'.op # "move")
            => routingPoints' = routingPoints
      ]_vars

(* C12: fetchOsrmRoute called with fewer than 2 valid points (fewer than 2 *)
(* points in total, or fewer than 2 left after the filter) fails with an   *)
(* invalid-input error and issues no request.                              *)
C12_TooFewPointsThrows ==
    (result.done /\ Len(SelectSeq(args.waypoints, ValidWaypoint)) < 2)
        => result.plan.kind = "throw"

(* C13: every route request carries at least 2 coordinates and every       *)
(* coordinate in it is finite.                                             *)
C13_RequestCoordsFinite ==
    (result.done /\ result.plan.kind = "request") =>
        /\ Len(result.plan.coords) >= 2
        /\ \A i \in 1..Len(result.plan.coords) :
              /\ result.plan.coords[i][1].t = "fin"
              /\ result.plan.coords[i][2].t = "fin"

(* C14: each activation of the round-trip toggle flips isRoundTrip, sets   *)
(* isRouteModified to true and triggers one route recompute.               *)
C14_ToggleMarksModified ==
    [][ last'.op = "toggle" =>
          /\ isRoundTrip' = ~isRoundTrip
          /\ isRouteModified' = TRUE
          /\ Len(routingPoints) >= 2 => Len(routeReqs') = Len(routeReqs) + 1
      ]_vars

(* C15: loadSavedRoute(id) for a stored id leaves the draft with the       *)
(* points of the record, its round-trip flag, currentLoadedRouteId = id    *)
(* and isRouteModified = false, triggers one recompute and leaves the      *)
(* stored record as it is; for an id that is not stored the draft is       *)
(* unchanged.                                                              *)
C15_LoadReplacesDraft ==
    [][ last'.op \in {"load", "loadMissing"} =>
          LET routeId == last'.a
              stored  == {k \in 1..Len(savedRoutes) : savedRoutes[k].id = routeId}
          IN  /\ savedRoutes' = savedRoutes
              /\ IF stored = {}
                 THEN UNCHANGED <<routingPoints, currentRouteDistance, isRoundTrip,
                                  currentLoadedRouteId, isRouteModified>>
                 ELSE \E k \in stored :
                        /\ routingPoints' = savedRoutes[k].points
                        /\ isRoundTrip' = savedRoutes[k].isRoundTrip
                        /\ currentLoadedRouteId' = routeId
                        /\ isRouteModified' = FALSE
                        /\ IF Len(routingPoints') >= 2
                           THEN /\ Len(routeReqs') = Len(routeReqs) + 1
                                /\ routeReqs'[Len(routeReqs')].coords =
                                      FetchPlan(savedRoutes[k].points,
                                                savedRoutes[k].isRoundTrip).coords
                           ELSE /\ routeReqs' = routeReqs
                                /\ routeLayer' = <<>> /\ currentRouteDistance' = 0
      ]_vars

\* "Loop" has been loaded over a draft that came from a GPX import.
C15_Witness ==
    /\ last.op = "load" /\ last.a = 1
    /\ currentLoadedRouteId = 1
    /\ routingPoints = StoredLoop.points
    /\ isRoundTrip
    /\ Len(savedRoutes) = 2
    /\ routeReqs # <<>>

(* C16: resetRoute leaves the draft with no points, no markers, no         *)
(* geometry, distance 0, no loaded route id and isRouteModified = false,   *)
(* and leaves isRoundTrip and the saved-route store unchanged.             *)
C16_ResetClearsDraft ==
    [][ last'.op = "reset" =>
          /\ routingPoints' = <<>>
          /\ routingMarkers' = <<>>
          /\ routeLayer' = <<>>
          /\ currentRouteDistance' = 0
          /\ currentLoadedRouteId' = 0
          /\ isRouteModified' = FALSE
          /\ isRoundTrip' = isRoundTrip
          /\ savedRoutes' = savedRoutes
      ]_vars

\* A loaded round trip with a drawn route has been reset.
C16_Witness ==
    /\ last.op = "reset"
    /\ isRoundTrip
    /\ routingPoints = <<>> /\ routeLayer = <<>>
    /\ currentLoadedRouteId = 0
    /\ gestures = 2

(* C17: updateExistingRoute(id, ...) changes only the name, description,   *)
(* points, distance and round-trip flag of the record with that id and     *)
(* keeps its id, creation time and position; when no record has the id or  *)
(* another record has the requested name, the store is unchanged.          *)
C17_UpdateInPlace ==
    [][ last'.op = "update" =>
          LET name    == last'.a
              routeId == last'.b
              found   == {k \in 1..Len(savedRoutes) : savedRoutes[k].id = routeId}
              taken   == \E k \in 1..Len(savedRoutes) :
                            savedRoutes[k].name = name /\ savedRoutes[k].id # routeId
          IN  IF found = {} \/ taken
              THEN savedRoutes' = savedRoutes
              ELSE \/ savedRoutes' = savedRoutes
                   \/ /\ Len(savedRoutes') = Len(savedRoutes)
                      /\ \E k \in found :
                            /\ savedRoutes'[k].id = routeId
                            /\ savedRoutes'[k].created = savedRoutes[k].created
                            /\ savedRoutes'[k].name = name
                            /\ savedRoutes'[k].points = routingPoints
                            /\ savedRoutes'[k].distance = currentRouteDistance
                            /\ savedRoutes'[k].isRoundTrip = isRoundTrip
                            /\ \A j \in 1..Len(savedRoutes) :
                                  j # k => savedRoutes'[j] = savedRoutes[j]
      ]_vars

\* "Loop" was loaded and updated under the name "Hill" while a second
\* record follows it in the list.
C17_Witness ==
    /\ last.op = "update" /\ last.a = "Hill" /\ last.b = 1
    /\ Len(savedRoutes) = 2
    /\ savedRoutes[1].id = 1 /\ savedRoutes[1].name = "Hill"
    /\ savedRoutes[1].created = 1

(* C18: saveCurrentRoute under a name that already exists, with the        *)
(* overwrite confirmed, leaves exactly one record with that name, whose id *)
(* is newly generated and differs from the old one, and leaves every other *)
(* record unchanged.                                                       *)
C18_OverwriteReplaces ==
    [][ (/\ last'.op = "save"
         /\ Len(routingPoints) > 0
         /\ NameExists(savedRoutes, last'.a)
         /\ last'.b = TRUE) =>
          LET name   == last'.a
              named  == {k \in 1..Len(savedRoutes') : savedRoutes'[k].name = name}
              oldIds == {savedRoutes[k].id : k \in 1..Len(savedRoutes)}
          IN  /\ Cardinality(named) = 1
              /\ \A k \in named : savedRoutes'[k].id \notin oldIds
              /\ SelectSeq(savedRoutes', LAMBDA r : r.name # name)
                    = SelectSeq(savedRoutes, LAMBDA r : r.name # name)
      ]_vars

(* C19: snapToNearestRoad never throws, so every addRoutingPoint call      *)
(* appends exactly one point to the end of the point list: the snapped     *)
(* point when snapping succeeds, the raw clicked position when the request *)
(* fails, answers with a non-success status, a malformed body or an empty  *)
(* result.                                                                 *)
C19_AddAppendsOnePoint ==
    [][ last'.op = "add" =>
          LET latlng == snapReqs[last'.a].pt
              added  == IF last'.b = "ok" THEN SnapLocation(latlng) ELSE latlng
          IN  routingPoints' = Append(routingPoints, added)
      ]_vars

\* The snap request of a click was rejected by the network and the raw
\* position was appended after a point that had been snapped.
C19_Witness ==
    /\ last.op = "add" /\ last.b = "network"
    /\ Len(routingPoints) = 2
    /\ routingPoints[1] = SnapLocation(P(1))
    /\ routingPoints[2] = P(5)

-----------------------------------------------------------------------------
(* GPX import: parseGPXFromString and trimGPXPoints.                        *)
(* Coordinates and thresholds are integers in units of 0.00001 degree; a    *)
(* point is the pair <<lon, lat>>.  Arithmetic is exact.                    *)

\* enum Precision
LOW == 80
VERYHIGH == 1
ORIGINAL == 0
\* the cap of the threshold in trimGPXPoints
maxThreshold == 100

\* longest track of a document
MaxTrack == 4

\* positions of track points: on two meridians, with a small (2) and a
\* large (200) offset in latitude
GpxPoints == {<<x, y>> : x \in {0, 1}, y \in {0, 2, 200}}
GpxWaypoints == {<<0, 0>>}
GpxThresholds == {ORIGINAL, VERYHIGH}
GpxMaxPoints == {2, 3}

\* the <wpt> elements first, then the <trkpt> elements, in document order
ExtractPoints(doc) == doc.wpt \o doc.trkpt

SqLen(dx, dy) == dx * dx + dy * dy

\* the common denominator of the distances to the segment p1 p2
SegDen(p1, p2) ==
    LET dd == SqLen(p2[1] - p1[1], p2[2] - p1[2])
    IN  IF dd = 0 THEN 1 ELSE dd

\* getSqSegDist of simplify-js: the square distance of p to the segment
\* p1 p2, multiplied by SegDen(p1, p2)
getSqSegDist(p, p1, p2) ==
    LET dx  == p2[1] - p1[1]
        dy  == p2[2] - p1[2]
        dd  == SqLen(dx, dy)
        dot == (p[1] - p1[1]) * dx + (p[2] - p1[2]) * dy
        cross == (p[1] - p1[1]) * dy - (p[2] - p1[2]) * dx
    IN  IF dd = 0 THEN SqLen(p[1] - p1[1], p[2] - p1[2])
        ELSE IF dot > dd THEN SqLen(p[1] - p2[1], p[2] - p2[2]) * dd
        ELSE IF dot > 0 THEN cross * cross
        ELSE SqLen(p[1] - p1[1], p[2] - p1[2]) * dd

\* the for loop of simplifyDPStep: the index of the point farthest from the
\* segment among those farther than the tolerance, 0 when there is none
RECURSIVE FarthestIndex(_, _, _, _, _, _)
FarthestIndex(points, firstIdx, lastIdx, i, maxSqDist, index) ==
    IF i >= lastIdx THEN index
    ELSE LET sqDist == getSqSegDist(points[i], points[firstIdx], points[lastIdx])
         IN  IF sqDist > maxSqDist
             THEN FarthestIndex(points, firstIdx, lastIdx, i + 1, sqDist, i)
             ELSE FarthestIndex(points, firstIdx, lastIdx, i + 1, maxSqDist, index)

\* simplifyDPStep: the points kept strictly between firstIdx and lastIdx
RECURSIVE simplifyDPStep(_, _, _, _)
simplifyDPStep(points, firstIdx, lastIdx, sqTolerance) ==
    LET index == FarthestIndex(points, firstIdx, lastIdx, firstIdx + 1,
                               sqTolerance * SegDen(points[firstIdx], points[lastIdx]), 0)
    IN  IF index = 0 THEN <<>>
        ELSE (IF index - firstIdx > 1
                 THEN simplifyDPStep(points, firstIdx, index, sqTolerance) ELSE <<>>)
             \o <<points[index]>>
             \o (IF lastIdx - index > 1
                 THEN simplifyDPStep(points, index, lastIdx, sqTolerance) ELSE <<>>)

simplifyDouglasPeucker(points, sqTolerance) ==
    <<points[1]>> \o simplifyDPStep(points, 1, Len(points), sqTolerance)
                  \o <<points[Len(points)]>>

\* simplify(points, tolerance, true)
simplify(points, tolerance) ==
    IF Len(points) <= 2 THEN points
    ELSE simplifyDouglasPeucker(points, tolerance * tolerance)

trimTrkpt(coordinates, threshold) ==
    IF threshold = ORIGINAL THEN coordinates ELSE simplify(coordinates, threshold)

\* `t * 2 || Precision.LOW`
\* (mutant) `t = t * 2`: a threshold of 0 stays 0
NextThresholdDoubled(t) == t * 2

NextThreshold(t) == IF t * 2 # 0 THEN t * 2 ELSE LOW

\* the thresholds the while loop of trimGPXPoints can go through
RECURSIVE ThresholdChain(_)
ThresholdChain(t) ==
    IF t < maxThreshold THEN {t} \cup ThresholdChain(NextThreshold(t)) ELSE {t}

GpxCall(done, pc, t, trimmed, points) ==
    [done |-> done, pc |-> pc, t |-> t, trimmed |-> trimmed, points |-> points]

InitGpx ==
    /\ IdleDraft /\ IdleLoop
    /\ savedRoutes = <<>> /\ nextId = 1
    /\ last = NullLast
    /\ \E w \in SeqsUpTo(GpxWaypoints, 1), trk \in SeqsUpTo(GpxPoints, MaxTrack),
          th \in GpxThresholds, m \in GpxMaxPoints :
          args = [fn |-> "parseGPXFromString", doc |-> [wpt |-> w, trkpt |-> trk],
                  threshold |-> th, maxPoints |-> m]
    /\ result = GpxCall(FALSE, "call", 0, <<>>, <<>>)

\* parseGPXFromString up to the while loop of trimGPXPoints, or to its
\* return when the points are not more than maxPoints
ParseGPXFromString ==
    /\ result.pc = "call"
    /\ LET points == ExtractPoints(args.doc)
       IN  IF Len(points) > args.maxPoints /\ args.maxPoints > 0
           THEN result' = GpxCall(FALSE, "while", args.threshold,
                                  trimTrkpt(points, args.threshold), <<>>)
           ELSE result' = GpxCall(TRUE, "done", args.threshold, <<>>, points)
    /\ UNCHANGED <<draftVars, loopVars, gestures, storeVars, last, args>>

TrimLoopGuard == Len(result.trimmed) > args.maxPoints /\ result.t < maxThreshold

\* one pass of the while loop
TrimLoopStep ==
    /\ result.pc = "while"
    /\ TrimLoopGuard
    /\ LET t == NextThreshold(result.t)
       IN  result' = GpxCall(FALSE, "while", t,
                             trimTrkpt(ExtractPoints(args.doc), t), <<>>)
    /\ UNCHANGED <<draftVars, loopVars, gestures, storeVars, last, args>>

\* the loop ends and trimGPXPoints returns what the last pass left
TrimReturn ==
    /\ result.pc = "while"
    /\ ~TrimLoopGuard
    /\ result' = GpxCall(TRUE, "done", result.t, result.trimmed, result.trimmed)
    /\ UNCHANGED <<draftVars, loopVars, gestures, storeVars, last, args>>

NextGpx ==
    \/ ParseGPXFromString
    \/ TrimLoopStep
    \/ TrimReturn

SpecGpx == InitGpx /\ [][NextGpx]_vars

(* C20: parseGPXFromString on a document with more extracted points than   *)
(* maxPoints returns at most maxPoints points, and they are the full input *)
(* simplified at a threshold reached by doubling, never a truncation; a    *)
(* document with at most maxPoints points is returned unchanged, in        *)
(* document order.                                                         *)
C20_TrimWithinMaxPoints ==
    result.done =>
        LET points == ExtractPoints(args.doc)
        IN  IF Len(points) > args.maxPoints
            THEN /\ Len(result.points) <= args.maxPoints
                 /\ \E t \in ThresholdChain(args.threshold) :
                       result.points = trimTrkpt(points, t)
            ELSE result.points = points

-----------------------------------------------------------------------------
C22_AbortedSaveChangesNothing ==
    [][ (\/ /\ last'.op = "save"
            /\ Len(routingPoints) > 0
            /\ NameExists(savedRoutes, last'.a)
            /\ last'.b = FALSE
         \/ /\ last'.op = "update"
            /\ \/ FindById(savedRoutes, last'.b) = 0
               \/ RenameConflict(savedRoutes, last'.b, last'.a)) =>
          /\ savedRoutes' = savedRoutes
          /\ currentLoadedRouteId' = currentLoadedRouteId
          /\ isRouteModified' = isRouteModified
      ]_vars

(* C23: after every completed mutation of the point list (add, remove,     *)
(* move, insert, reset, load, GPX import), under any interleaving, there   *)
(* is exactly one marker per point, and the marker of points[k] carries    *)
(* the label k+1 and the stored index k.                                   *)
C23_OneMarkerPerPoint ==
    /\ Len(routingMarkers) = Len(routingPoints)
    /\ \A k \in 1..Len(routingMarkers) :
          /\ routingMarkers[k].number = k
          /\ routingMarkers[k].pointIndex = k - 1

-----------------------------------------------------------------------------
(* The insertion helpers as pure functions                                  *)

\* most vertices of a route polyline handed to the helpers
MaxRoute == 3
\* most waypoints handed to the helpers
MaxInsertPoints == 3

\* positions of waypoints, anchors and route vertices on the meridian
InsertPositions == {P(0), P(1), P(2), P(4)}
\* positions of waypoints and anchors in the plane
SegmentPositions == {LatLng(Fin(x), Fin(y)) : x \in {0, 1, 2}, y \in {0, 1, 2}}

InitInsert ==
    /\ IdleDraft /\ IdleLoop
    /\ savedRoutes = <<>> /\ nextId = 1
    /\ last = NullLast
    /\ \/ \E pts \in SeqsUpTo(InsertPositions, MaxInsertPoints),
             route \in SeqsUpTo(InsertPositions, MaxRoute),
             anchor \in InsertPositions :
             /\ Len(pts) >= 2 /\ Len(route) >= 2
             /\ args = [fn |-> "findBestInsertionIndex", routingPoints |-> pts,
                        routeLatLngs |-> route, anchorPoint |-> anchor,
                        isRoundTrip |-> FALSE]
       \/ \E pts \in SeqsUpTo(SegmentPositions, MaxInsertPoints),
             anchor \in SegmentPositions, flag \in BOOLEAN :
             /\ Len(pts) >= 2
             /\ args = [fn |-> "insertWaypointByNearestSegment", routingPoints |-> pts,
                        routeLatLngs |-> <<>>, anchorPoint |-> anchor,
                        isRoundTrip |-> flag]
       \/ \E route \in SeqsUpTo(InsertPositions, MaxRoute), point \in InsertPositions :
             /\ Len(route) >= 2
             /\ args = [fn |-> "projectPointOntoPolyline", routingPoints |-> <<>>,
                        routeLatLngs |-> route, anchorPoint |-> point,
                        isRoundTrip |-> FALSE]
    /\ result = [done |-> FALSE, insertIndex |-> 0, alongDistance |-> 0, total |-> 0]

CallFindBestInsertionIndex ==
    /\ ~result.done
    /\ args.fn = "findBestInsertionIndex"
    /\ result' = [done |-> TRUE,
                  insertIndex |->
                      FindBestInsertionIndex(args.routingPoints, args.anchorPoint,
                          args.routeLatLngs,
                          CalculateCumulativeDistances(args.routeLatLngs)),
                  alongDistance |-> 0, total |-> 0]
    /\ UNCHANGED <<draftVars, loopVars, gestures, storeVars, last, args>>

\* the insertIndex of insertWaypointByNearestSegment
CallNearestSegment ==
    /\ ~result.done
    /\ args.fn = "insertWaypointByNearestSegment"
    /\ result' = [done |-> TRUE,
                  insertIndex |->
                      NearestSegmentIndex(args.routingPoints, args.anchorPoint),
                  alongDistance |-> 0, total |-> 0]
    /\ UNCHANGED <<draftVars, loopVars, gestures, storeVars, last, args>>

\* projectPointOntoPolyline and distanceAlongPolyline on the same inputs
CallProjections ==
    /\ ~result.done
    /\ args.fn = "projectPointOntoPolyline"
    /\ result' = [done |-> TRUE, insertIndex |-> 0,
                  alongDistance |->
                      ProjectPointOntoPolyline(args.anchorPoint, args.routeLatLngs,
                          CalculateCumulativeDistances(args.routeLatLngs)).alongDistance,
                  total |-> DistanceAlongPolyline(args.routeLatLngs, args.anchorPoint)]
    /\ UNCHANGED <<draftVars, loopVars, gestures, storeVars, last, args>>

NextInsert ==
    \/ CallFindBestInsertionIndex
    \/ CallNearestSegment
    \/ CallProjections

SpecInsert == InitInsert /\ [][NextInsert]_vars

(* C24: findBestInsertionIndex treats the arc-length positions of the m    *)
(* waypoints as consecutive gaps on a closed loop, of which only the gap   *)
(* from waypoint m-1 back to waypoint 0 wraps, and returns k+1 for the     *)
(* first gap, starting at waypoint k, whose interval contains the anchor's *)
(* arc-length position; when no gap contains it, it returns the index      *)
(* after the start of the gap with the smallest length.                    *)
C24_GapContainsAnchor ==
    (result.done /\ args.fn = "findBestInsertionIndex") =>
        LET cum   == CalculateCumulativeDistances(args.routeLatLngs)
            total == cum[Len(cum)]
            m     == Len(args.routingPoints)
            pos(k) == ProjectPointOntoPolyline(args.routingPoints[k + 1],
                          args.routeLatLngs, cum).alongDistance
            x     == ProjectPointOntoPolyline(args.anchorPoint,
                          args.routeLatLngs, cum).alongDistance
            start(k) == pos(k)
            end(k)   == pos((k + 1) % m)
            wraps(k) == k = m - 1 /\ end(k) <= start(k)
            within(y, k) ==
                y > start(k) /\ y <= (IF wraps(k) THEN end(k) + total ELSE end(k))
            contains(k) ==
                IF k = m - 1 THEN within(IF x < start(k) THEN x + total ELSE x, k)
                ELSE within(x, k)
            length(k) == IF wraps(k) THEN end(k) + total - start(k)
                         ELSE end(k) - start(k)
            gaps == 0..(m - 1)
            hits == {k \in gaps : contains(k)}
        IN  IF hits # {}
            THEN result.insertIndex = SetMin(hits) + 1
            ELSE result.insertIndex =
                     SetMin({k \in gaps : \A j \in gaps : length(k) <= length(j)}) + 1

(* C25: in the nearest-segment fallback the candidate pairs are the        *)
(* consecutive pairs (points[i], points[i+1]), plus the wrap-around pair   *)
(* (last, first) only when the draft is a round trip; the new point is     *)
(* inserted immediately after the waypoint that starts the pair with the   *)
(* least planar distance to the anchor, the first such pair winning ties.  *)
C25_WrapPairOnlyForRoundTrip ==
    (result.done /\ args.fn = "insertWaypointByNearestSegment") =>
        LET pts == args.routingPoints
            n   == Len(pts)
            pairs == IF args.isRoundTrip THEN 0..(n - 1) ELSE 0..(n - 2)
            d(i) == GetDistanceToLineSegment(args.anchorPoint, pts[i + 1],
                                             pts[((i + 1) % n) + 1])
            best == SetMin({i \in pairs : \A j \in pairs : FracLeq(d(i), d(j))})
        IN  result.insertIndex = best + 1

-----------------------------------------------------------------------------
(* C26: insertWaypointAtBestPosition on a draft with fewer than 2 points   *)
(* is a no-op: points, markers, isModified, distance and geometry are      *)
(* unchanged and neither a snap request nor a route request is issued.     *)
C26_InsertNeedsTwoPoints ==
    [][ (last'.op \in {"insert", "insertIgnored"} /\ Len(routingPoints) < 2) =>
          /\ UNCHANGED <<routingPoints, routingMarkers, isRouteModified,
                         currentRouteDistance, routeLayer>>
          /\ snapReqs' = snapReqs
          /\ routeReqs' = routeReqs
      ]_vars

\* An insertion was asked for on a draft of one point, which is still the
\* only point.
C26_Witness ==
    /\ last.op = "insertIgnored"
    /\ Len(routingPoints) = 1
    /\ Len(routingMarkers) = 1
    /\ snapReqs = <<>>

(* C27: each completed mutation of the point list that leaves the draft    *)
(* with at least 2 points issues exactly one route request, and one that   *)
(* leaves fewer than 2 points issues none; when a route request succeeds,  *)
(* the distance is the distance of the response and the displayed geometry *)
(* is the geometry of the response.                                        *)
C27_OneRequestPerMutation ==
    [][ /\ (\/ last'.op \in {"add", "move", "insertSplice", "reset", "load"}
            \/ /\ last'.op = "remove"
               /\ last'.a >= 0 /\ last'.a < last'.b) =>
              IF Len(routingPoints') >= 2
              THEN Len(routeReqs') = Len(routeReqs) + 1
              ELSE routeReqs' = routeReqs
        /\ last'.op = "routeDrawn" =>
              \E answer \in {"ok", "short"} :
                  LET route == RouteAnswer(routeReqs[last'.a].coords, answer)
                  IN  /\ currentRouteDistance' = route.distance
                      /\ routeLayer' = GeoToLatLngs(route.geometry)
      ]_vars

(* C28: route computation and draft editing never change the saved-route   *)
(* store: adding, removing, moving and inserting a point, resetRoute,      *)
(* loadSavedRoute, the round-trip toggle and every snap or route response  *)
(* leave all records unchanged; records change only through save, update,  *)
(* rename, delete and import.                                              *)
C28_DraftEditingKeepsStore ==
    [][ /\ last'.op \in {"click", "add", "remove", "reset", "load", "loadMissing",
                         "toggle", "dragstart", "dragend", "move", "timer",
                         "insert", "insertIgnored", "insertSplice",
                         "routeDrawn", "routeFailed"}
              => savedRoutes' = savedRoutes
        /\ savedRoutes' # savedRoutes
              => last'.op \in {"save", "update", "rename", "delete",
                               "deleteSelected", "import", "gpx"}
      ]_vars

\* The stored route was loaded and the draft edited and recomputed; the
\* record is as it was stored.
C28_Witness ==
    /\ last.op = "routeDrawn"
    /\ currentLoadedRouteId = 1
    /\ isRouteModified
    /\ routingPoints # StoredLoop.points
    /\ currentRouteDistance # StoredLoop.distance
    /\ savedRoutes = <<StoredLoop>>

-----------------------------------------------------------------------------
(* The tile cache: cacheTile.                                               *)
(* The cache is the sequence of its entries in key order (Object.entries);  *)
(* sizes are in units of one record header or one unit of image data.       *)

\* most entries of the stored cache
MaxTiles == 5
\* the quota of durable storage for the tile cache
TileQuota == 12
\* MAX_CACHE_SIZE_MB * 1024 * 1024, in the units of the model
maxCacheSize == 8

TileUrls == <<"a", "b", "c", "d", "e", "f">>
TileTimestamps == 1..3
TileData == {1, 2}
\* Date.now() of the call, later than every stored timestamp
TileNow == 4

TileEntry(url, data, timestamp) == [url |-> url, data |-> data, timestamp |-> timestamp]

\* JSON.stringify(cache).length
RECURSIVE CacheSize(_)
CacheSize(cache) ==
    IF cache = <<>> THEN 0 ELSE 1 + Head(cache).data + CacheSize(Tail(cache))

\* (mutant) the comparator sorts the newest entries to the front
SortsNewestFirst(cache, i, j) ==
    \/ cache[i].timestamp > cache[j].timestamp
    \/ cache[i].timestamp = cache[j].timestamp /\ i < j

\* entries.sort((a, b) => a.timestamp - b.timestamp): whether entry i comes
\* before entry j; the sort is stable
SortsBefore(cache, i, j) ==
    \/ cache[i].timestamp < cache[j].timestamp
    \/ cache[i].timestamp = cache[j].timestamp /\ i < j

\* the positions of the first toRemove entries of the sorted list
OldestEntries(cache, toRemove) ==
    {i \in 1..Len(cache) :
        Cardinality({j \in 1..Len(cache) : SortsBefore(cache, j, i)}) < toRemove}

\* Math.floor(entries.length * 0.2)
ToRemove(n) == (n * 2) \div 10

\* `cache[url] = {...}`: an existing key keeps its place, a new key is last
PutTile(cache, entry) ==
    IF \E i \in 1..Len(cache) : cache[i].url = entry.url
    THEN [i \in 1..Len(cache) |-> IF cache[i].url = entry.url THEN entry ELSE cache[i]]
    ELSE Append(cache, entry)

\* cacheTile: the stored cache it leaves, the urls it deleted and whether
\* localStorage.setItem threw (the catch block then removes the whole key)
CacheTile(cache, url, dataUrl, now) ==
    LET removed == IF CacheSize(cache) > maxCacheSize
                   THEN OldestEntries(cache, ToRemove(Len(cache)))
                   ELSE {}
        kept    == SelectSeq([i \in 1..Len(cache) |-> [e |-> cache[i], i |-> i]],
                             LAMBDA x : x.i \notin removed)
        cleaned == [k \in 1..Len(kept) |-> kept[k].e]
        updated == PutTile(cleaned, TileEntry(url, dataUrl, now))
        failed  == CacheSize(updated) > TileQuota
    IN  [done |-> TRUE,
         cache |-> IF failed THEN <<>> ELSE updated,
         removed |-> {cache[i].url : i \in removed},
         error |-> failed]

InitTile ==
    /\ IdleDraft /\ IdleLoop
    /\ savedRoutes = <<>> /\ nextId = 1
    /\ last = NullLast
    /\ \E n \in 0..MaxTiles :
       \E data \in [1..n -> TileData], timestamp \in [1..n -> TileTimestamps],
          u \in 1..Len(TileUrls), dataUrl \in TileData :
          LET cache == [i \in 1..n |-> TileEntry(TileUrls[i], data[i], timestamp[i])]
          IN  /\ CacheSize(cache) <= TileQuota
              /\ args = [fn |-> "cacheTile", cache |-> cache, url |-> TileUrls[u],
                         dataUrl |-> dataUrl, now |-> TileNow]
    /\ result = [done |-> FALSE, cache |-> <<>>, removed |-> {}, error |-> FALSE]

CallCacheTile ==
    /\ ~result.done
    /\ result' = CacheTile(args.cache, args.url, args.dataUrl, args.now)
    /\ UNCHANGED <<draftVars, loopVars, gestures, storeVars, last, args>>

NextTile == CallCacheTile

SpecTile == InitTile /\ [][NextTile]_vars

(* C29: when the stored cache exceeds the size ceiling, cacheTile removes  *)
(* floor(20% of the entry count) entries with the oldest timestamps before *)
(* it inserts the new tile: no removed entry is newer than a retained one; *)
(* and after a call that hits no storage error the new tile is in the      *)
(* cache under its URL.                                                    *)
C29_EvictsOldestFifth ==
    result.done =>
        LET before   == args.cache
            urls(c)  == {c[i].url : i \in 1..Len(c)}
            stamp(u) == (CHOOSE i \in 1..Len(before) : before[i].url = u)
            time(u)  == before[stamp(u)].timestamp
            retained == urls(before) \ result.removed
        IN  /\ result.removed \subseteq urls(before)
            /\ IF CacheSize(before) > maxCacheSize
               THEN /\ Cardinality(result.removed) = Len(before) \div 5
                    /\ \A r \in result.removed, k \in retained : time(r) <= time(k)
               ELSE result.removed = {}
            /\ ~result.error =>
                  /\ urls(result.cache) = retained \cup {args.url}
                  /\ \E i \in 1..Len(result.cache) :
                        /\ result.cache[i].url = args.url
                        /\ result.cache[i].data = args.dataUrl
                        /\ result.cache[i].timestamp = args.now
                  /\ \A i \in 1..Len(result.cache) :
                        result.cache[i].url # args.url =>
                            result.cache[i] = before[stamp(result.cache[i].url)]

\* A cache of five entries above the ceiling: the oldest entry was removed
\* and the new tile stored.
C29_Witness ==
    /\ result.done /\ ~result.error
    /\ args.fn = "cacheTile"
    /\ Len(args.cache) = 5
    /\ CacheSize(args.cache) > maxCacheSize
    /\ result.removed = {"c"}
    /\ args.url = "f"
    /\ Len(result.cache) = 5
    /\ result.cache[5].url = "f"

-----------------------------------------------------------------------------
-----------------------------------------------------------------------------
-----------------------------------------------------------------------------
(* Dragging the route line: the mousedown listener that drawRoute puts on  *)
(* the polyline, and the mousemove / mouseup listeners that each mousedown *)
(* registers on the map. args holds the local variables of every mousedown *)
(* call (one closure per call), result the map: its listeners, the         *)
(* temporary markers on it, whether panning is enabled, and the calls made *)
(* to the insertWaypointAtBestPosition callback that drawRoute was given.  *)
(* result.events is the log of the mouse events delivered so far.          *)

\* most mouse events in one session
MaxLineEvents == 5
\* most mousedowns whose mouseup has not been delivered to the map yet
MaxLineDrags == 2

LinePoints == AnchorPoints
MovePoints == RawPoints

MouseEvent(type, latlng) == [type |-> type, latlng |-> latlng]

\* the locals of one mousedown call
MouseDownClosure(latlng) ==
    [anchorPoint |-> latlng, dragPoint |-> latlng, isDragging |-> FALSE,
     tempMarker |-> latlng]

OnMouseMove(closure, moveEvent) ==
    [closure EXCEPT !.isDragging = TRUE,
                    !.tempMarker = moveEvent.latlng,
                    !.dragPoint = moveEvent.latlng]

\* (mutant) onMouseUp calls the callback whether or not the mouse moved
OnMouseUpAlwaysInserts(closure, k, map) ==
    [map EXCEPT !.mousemove = SelectSeq(@, LAMBDA l : l # k),
                !.mouseup = SelectSeq(@, LAMBDA l : l # k),
                !.tempMarkers = @ \ {k},
                !.draggingEnabled = TRUE,
                !.calls = Append(@, [dropPoint |-> closure.dragPoint,
                                     anchorPoint |-> closure.anchorPoint])]

\* onMouseUp of the k-th mousedown call
OnMouseUp(closure, k, map) ==
    [map EXCEPT !.mousemove = SelectSeq(@, LAMBDA l : l # k),
                !.mouseup = SelectSeq(@, LAMBDA l : l # k),
                !.tempMarkers = @ \ {k},
                !.draggingEnabled = TRUE,
                !.calls = IF closure.isDragging
                          THEN Append(@, [dropPoint |-> closure.dragPoint,
                                          anchorPoint |-> closure.anchorPoint])
                          ELSE @]

\* the map fires 'mouseup': the listeners registered when the event
\* arrives run in the order of their registration
RECURSIVE FireMouseUp(_, _, _)
FireMouseUp(listeners, closures, map) ==
    IF listeners = <<>> THEN map
    ELSE FireMouseUp(Tail(listeners), closures,
                     OnMouseUp(closures[Head(listeners)], Head(listeners), map))

InitLine ==
    /\ IdleDraft /\ IdleLoop
    /\ savedRoutes = <<>> /\ nextId = 1
    /\ last = NullLast
    /\ args = <<>>
    /\ result = [mousemove |-> <<>>, mouseup |-> <<>>, tempMarkers |-> {},
                 draggingEnabled |-> TRUE, calls |-> <<>>, events |-> <<>>]

\* layer.on('mousedown', ...)
LineMouseDown(latlng) ==
    /\ gestures < MaxLineEvents /\ gestures' = gestures + 1
    /\ Len(result.mouseup) < MaxLineDrags
    /\ LET k == Len(args) + 1 IN
       /\ args' = Append(args, MouseDownClosure(latlng))
       /\ result' = [result EXCEPT !.draggingEnabled = FALSE,
                                   !.tempMarkers = @ \cup {k},
                                   !.mousemove = Append(@, k),
                                   !.mouseup = Append(@, k),
                                   !.events = Append(@, MouseEvent("mousedown", latlng))]
    /\ last' = Did("mousedown", latlng, 0)
    /\ UNCHANGED <<draftVars, loopVars, storeVars>>

\* the map fires 'mousemove'
MapMouseMove(latlng) ==
    /\ gestures < MaxLineEvents /\ gestures' = gestures + 1
    /\ args' = [k \in DOMAIN args |->
                  IF \E l \in DOMAIN result.mousemove : result.mousemove[l] = k
                  THEN OnMouseMove(args[k], MouseEvent("mousemove", latlng))
                  ELSE args[k]]
    /\ result' = [result EXCEPT !.events = Append(@, MouseEvent("mousemove", latlng))]
    /\ last' = Did("mousemove", latlng, 0)
    /\ UNCHANGED <<draftVars, loopVars, storeVars>>

\* the map fires 'mouseup'
MapMouseUp ==
    /\ gestures < MaxLineEvents /\ gestures' = gestures + 1
    /\ result' = FireMouseUp(result.mouseup, args,
                    [result EXCEPT !.events = Append(@, MouseEvent("mouseup", Hole))])
    /\ last' = Did("mouseup", Len(result.mouseup), 0)
    /\ UNCHANGED <<draftVars, loopVars, storeVars, args>>

NextLine ==
    \/ \E latlng \in LinePoints : LineMouseDown(latlng)
    \/ \E latlng \in MovePoints : MapMouseMove(latlng)
    \/ MapMouseUp

SpecLine == InitLine /\ [][NextLine]_vars

(* C32: every mousedown on the route line is matched by exactly one        *)
(* cleanup at the next mouseup: panning is enabled again, the temporary    *)
(* marker is gone and the mousemove / mouseup listeners of that drag are   *)
(* detached, whether or not the mouse moved; insertWaypointAtBestPosition  *)
(* is called exactly once for a mousedown that was followed by at least    *)
(* one mousemove before that mouseup and not at all otherwise, with the    *)
(* mousedown position as anchor and the last mousemove position as drop    *)
(* point. The expected calls are computed from the log of mouse events.    *)
C32_MouseUpCleansUpOnce ==
    [][ LET ev == result.events
            n == Len(ev)
            ups == {j \in 1..n : ev[j].type = "mouseup"}
            prevUp == IF ups = {} THEN 0 ELSE CHOOSE j \in ups : \A u \in ups : u <= j
            downs == {d \in (prevUp + 1)..n : ev[d].type = "mousedown"}
            moves(d) == {j \in (d + 1)..n : ev[j].type = "mousemove"}
            lastMove(d) == CHOOSE j \in moves(d) : \A u \in moves(d) : u <= j
            expected(d) == [dropPoint |-> ev[lastMove(d)].latlng,
                            anchorPoint |-> ev[d].latlng]
            made == SubSeq(result'.calls, Len(result.calls) + 1, Len(result'.calls))
        IN  /\ last'.op = "mouseup" =>
                 /\ result'.draggingEnabled
                 /\ result'.tempMarkers = {}
                 /\ result'.mousemove = <<>> /\ result'.mouseup = <<>>
                 /\ Len(made) = Cardinality({d \in downs : moves(d) # {}})
                 /\ \A d \in downs : moves(d) # {} =>
                       Cardinality({c \in 1..Len(made) : made[c] = expected(d)})
                         = Cardinality({e \in downs : /\ moves(e) # {}
                                                      /\ expected(e) = expected(d)})
            /\ last'.op = "mousedown" =>
                 /\ ~result'.draggingEnabled
                 /\ Cardinality(result'.tempMarkers) = Cardinality(downs) + 1
                 /\ Len(result'.mouseup) = Cardinality(downs) + 1
                 /\ Len(result'.mousemove) = Cardinality(downs) + 1
            /\ last'.op # "mouseup" => result'.calls = result.calls
      ]_vars

\* Two mousedowns, of which only the first saw the mouse move, have been
\* cleaned up by one mouseup with one call of the callback.
C32_Witness ==
    /\ last.op = "mouseup" /\ last.a = 2
    /\ Len(args) = 2 /\ args[1].isDragging /\ ~args[2].isDragging
    /\ result.calls = <<[dropPoint |-> args[1].dragPoint,
                         anchorPoint |-> args[1].anchorPoint]>>
    /\ result.mouseup = <<>> /\ result.tempMarkers = {} /\ result.draggingEnabled

-----------------------------------------------------------------------------
(* C33: points added by addRoutingPoint appear in the point list in the    *)
(* order of the clicks, also when the snap response of a later click       *)
(* arrives first: when addRoutingPoint appends the point of a click, no    *)
(* earlier click at another position is still waiting for its snap         *)
(* response (its point would land behind the later click's point).         *)
C33_AddsInClickOrder ==
    [][ (last'.op = "add" /\ Len(routingPoints') > Len(routingPoints)) =>
          \A j \in 1..(last'.a - 1) :
              snapReqs[j].kind = "add" => snapReqs[j].pt = snapReqs[last'.a].pt
      ]_vars

-----------------------------------------------------------------------------
(* C34: completing a marker drag replaces exactly the entry of the dragged *)
(* point and leaves the length of the point list and every other entry     *)
(* unchanged, whatever happened to the list between the creation of the    *)
(* marker and the arrival of the snap response: the write lands inside the *)
(* list and creates no empty slot.                                         *)
C34_DragWritesInPlace ==
    [][ last'.op = "move" =>
          /\ last'.a + 1 \in 1..Len(routingPoints)
          /\ Len(routingPoints') = Len(routingPoints)
          /\ \A k \in 1..Len(routingPoints) :
                k # last'.a + 1 => routingPoints'[k] = routingPoints[k]
          /\ \A k \in 1..Len(routingPoints') : routingPoints'[k] # Hole
      ]_vars

-----------------------------------------------------------------------------
(* C35: both insertion methods choose an insertion index in 1..m, m being  *)
(* the number of points when the index is computed, so an insertion at     *)
(* that index leaves the first waypoint first; and an anchor that falls in *)
(* the wrap-around gap (along the route strictly behind every waypoint or *)
(* strictly in front of every waypoint, the first waypoint not lying       *)
(* behind the last; for the nearest-segment method: strictly nearest to    *)
(* the pair (last, first)) is appended at the end, at index m.             *)
C35_InsertIndexInRange ==
    (result.done /\ args.fn \in {"findBestInsertionIndex",
                                 "insertWaypointByNearestSegment"}) =>
        LET pts == args.routingPoints
            m   == Len(pts)
            cum == CalculateCumulativeDistances(args.routeLatLngs)
            pos(k) == ProjectPointOntoPolyline(pts[k + 1], args.routeLatLngs,
                                               cum).alongDistance
            x   == ProjectPointOntoPolyline(args.anchorPoint, args.routeLatLngs,
                                            cum).alongDistance
            d(i) == GetDistanceToLineSegment(args.anchorPoint, pts[i + 1],
                                             pts[((i + 1) % m) + 1])
            inWrapGap ==
                IF args.fn = "findBestInsertionIndex"
                THEN /\ pos(0) <= pos(m - 1)
                     /\ \/ \A k \in 0..(m - 1) : x > pos(k)
                        \/ x > 0 /\ \A k \in 0..(m - 1) : x < pos(k)
                ELSE \A i \in 0..(m - 2) : ~FracLeq(d(i), d(m - 1))
        IN  /\ result.insertIndex \in 1..m
            /\ Splice(pts, result.insertIndex, args.anchorPoint)[1] = pts[1]
            /\ inWrapGap => result.insertIndex = m

\* An anchor behind the last of three waypoints is appended at index 3.
C35_Witness ==
    /\ result.done /\ args.fn = "findBestInsertionIndex"
    /\ args.routingPoints = <<P(0), P(1), P(2)>>
    /\ args.routeLatLngs = <<P(0), P(4)>>
    /\ args.anchorPoint = P(4)
    /\ result.insertIndex = 3

-----------------------------------------------------------------------------
(* C36: in every reachable state the draft's loadedRouteId is either none  *)
(* or the id of a record that is in the saved-route store, also after that *)
(* record was deleted, bulk-deleted or replaced by a confirmed overwrite.  *)
C36_LoadedIdIsStored ==
    currentLoadedRouteId = 0 \/ currentLoadedRouteId \in StoredIds

-----------------------------------------------------------------------------
(* C37: a confirmed overwrite in saveCurrentRoute is atomic with respect   *)
(* to failing writes to durable storage: afterwards the store either holds *)
(* the new record in place of the old one or is exactly as before the      *)
(* call; the old record is never lost without the new one being stored.    *)
C37_OverwriteAtomic ==
    [][ (/\ last'.op = "save"
         /\ last'.b = TRUE
         /\ NameExists(savedRoutes, last'.a)) =>
          \/ savedRoutes' = savedRoutes
          \/ \E k \in 1..Len(savedRoutes') :
                /\ savedRoutes'[k].name = last'.a
                /\ savedRoutes'[k].points = routingPoints
                /\ savedRoutes'[k].id \notin StoredIds
      ]_vars

-----------------------------------------------------------------------------
(* Export and re-import of saved routes. args holds the document that the  *)
(* last export handed to the browser for download.                         *)

\* `routes.filter(route => routeIds.includes(route.id))`, serialised
ExportDocument(routes, routeIds) ==
    LET routesToExport == SelectSeq(routes, LAMBDA route : route.id \in routeIds)
    IN  [k \in 1..Len(routesToExport) |-> Exported(routesToExport[k])]

\* exportSavedRoutes. It writes nothing the program reads again, so it is
\* not counted among the gestures of the session.
ExportSavedRoutes(routeIds) ==
    /\ UNCHANGED gestures
    /\ LET dataStr == ExportDocument(savedRoutes, routeIds)
       IN  /\ args' = IF dataStr = <<>> THEN args
                      ELSE [fn |-> "exportSavedRoutes", document |-> dataStr]
           /\ last' = Did("export", routeIds, Len(dataStr))
    /\ UNCHANGED <<draftVars, loopVars, storeVars, result>>

\* importSavedRoutes on the downloaded file
ImportExported(overwrite) ==
    /\ args.fn = "exportSavedRoutes"
    /\ ImportSavedRoutes(args.document, overwrite)

NextExport ==
    \/ \E routeName \in Names, points \in GpxTracks : ImportGpxSubmit(routeName, points)
    \/ \E routeIds \in SUBSET StoredIds : ExportSavedRoutes(routeIds)
    \/ \E selectedIds \in SUBSET StoredIds, confirmed \in BOOLEAN :
          DeleteSelectedRoutes(selectedIds, confirmed)
    \/ \E overwrite \in SUBSET Names : ImportExported(overwrite)

SpecExport == Init /\ [][NextExport]_vars

(* C38: exportSavedRoutes leaves the store unchanged and emits exactly the *)
(* records with the selected ids in store order; importing that document   *)
(* into an empty store yields the same number of records, in the same      *)
(* order, equal to the exported ones in name, description, points,         *)
(* distance, isRoundTrip and creation timestamp and differing only in id.  *)
C38_ExportImportRoundTrip ==
    [][ /\ last'.op = "export" =>
             LET selected == SelectSeq(savedRoutes, LAMBDA r : r.id \in last'.a)
             IN  /\ savedRoutes' = savedRoutes
                 /\ selected # <<>> =>
                       /\ Len(args'.document) = Len(selected)
                       /\ \A k \in 1..Len(selected) :
                             args'.document[k] = Exported(selected[k])
        /\ (last'.op = "import" /\ savedRoutes = <<>>) =>
             LET doc == args.document
             IN  /\ Len(savedRoutes') = Len(doc)
                 /\ \A k \in 1..Len(doc) :
                       k <= Len(savedRoutes') =>
                          /\ savedRoutes'[k].name = doc[k].name
                          /\ savedRoutes'[k].description = doc[k].description
                          /\ JsArray(savedRoutes'[k].points) = doc[k].points
                          /\ savedRoutes'[k].distance = doc[k].distance
                          /\ savedRoutes'[k].isRoundTrip = doc[k].isRoundTrip
                          /\ savedRoutes'[k].created = doc[k].created
                          /\ savedRoutes'[k].id # doc[k].id
      ]_vars

-----------------------------------------------------------------------------
(* parseGPXFromString is one synchronous call: once entered it keeps       *)
(* taking steps until it returns.                                          *)

\* the other members of the Precision enum, in units of 0.00001 degrees
MEDIUM == 20
HIGH == 6

\* longest track of a document in SpecGpxLive
MaxLiveTrack == 3

\* every member of Precision as starting threshold, on shorter tracks
InitGpxLive ==
    /\ IdleDraft /\ IdleLoop
    /\ savedRoutes = <<>> /\ nextId = 1
    /\ last = NullLast
    /\ \E w \in SeqsUpTo(GpxWaypoints, 1),
          trk \in SeqsUpTo({<<0, 0>>, <<0, 2>>, <<1, 200>>}, MaxLiveTrack),
          th \in {ORIGINAL, VERYHIGH, HIGH, MEDIUM, LOW}, m \in GpxMaxPoints :
          args = [fn |-> "parseGPXFromString", doc |-> [wpt |-> w, trkpt |-> trk],
                  threshold |-> th, maxPoints |-> m]
    /\ result = GpxCall(FALSE, "call", 0, <<>>, <<>>)

SpecGpxLive == InitGpxLive /\ [][NextGpx]_vars /\ WF_vars(NextGpx)

(* C39: the threshold-doubling loop of trimGPXPoints terminates for every  *)
(* starting threshold that is zero or positive: the call returns; a        *)
(* threshold of 0 is replaced by the LOW precision and every other one     *)
(* doubled; and the loop takes another pass only while the point count is  *)
(* above maxPoints and the threshold below the maximum of 0.001.           *)
C39_TrimLoopTerminates ==
    /\ <>result.done
    /\ [][ /\ (result.pc = "while" /\ result'.pc = "while") =>
                /\ Len(result.trimmed) > args.maxPoints
                /\ result.t < maxThreshold
                /\ result'.t = (IF result.t = 0 THEN LOW ELSE 2 * result.t)
                /\ result'.t > result.t
           /\ (result.pc = "while" /\ (\/ Len(result.trimmed) <= args.maxPoints
                                       \/ result.t >= maxThreshold)) =>
                result'.done
         ]_vars

\* A call that started at threshold 0 has returned after the passes at LOW
\* and twice LOW.
C39_Witness ==
    /\ result.done
    /\ args.threshold = ORIGINAL
    /\ result.t = 2 * LOW
    /\ Len(ExtractPoints(args.doc)) > args.maxPoints

====
